---------------------------- MODULE Spec2Model ----------------------------
(***************************************************************************)
(* A model of the chapter pipeline of src/pdf_ocr_service.py: the          *)
(* heuristic segmenter (_segment_chapters and its callers), the            *)
(* table-of-contents splitters (split_pdf_by_toc,                          *)
(* export_chapters_to_zip_from_toc), the outline splitter                  *)
(* (_chapters_from_outline, split_pdf_into_chapters), the heading          *)
(* heuristic, the naming loop of the exports, the DOCX writers,            *)
(* translate_text, the two parallel functions, and the chapter endpoints   *)
(* of src/main.py.  Each part has its own specification; the variables of  *)
(* the other parts stay at rest in it.                                     *)
(*                                                                         *)
(* A Python str is a sequence of characters.  A character is a TLA+ string:*)
(* an ASCII character stands for itself ("a", " ", "."), "\n" is the line  *)
(* feed, and a character outside ASCII is written by its Unicode name      *)
(* ("ALEF" is U+0627).  Chars("Body A.") is the str "Body A.".             *)
(***************************************************************************)
EXTENDS Integers, Sequences, FiniteSets, TLC

VARIABLES
    op,            \* the operation under way
    pc,            \* its position in the code
    pdfPages,      \* _ocr_pdf_to_pages(pdf_path): the document's page texts
    start_page,    \* extract_chapters_as_json's start_page argument
    pages,         \* _segment_chapters' pages argument
    page_offset,   \* _segment_chapters' page_offset argument
    idx,           \* the 1-based page index of the enumerate loop
    lineNo,        \* how many lines of page idx the inner loop has consumed
    current,       \* the Chapter under construction
    chapters,      \* the list of finalized Chapters
    shaped,        \* what extract_chapters_as_json or pdf_to_word_chapters builds
    printed_to_pdf_offset, \* the TOC splitters' offset argument
    all_entries,   \* the (title, printed_page) pairs parsed from the TOC pages
    toc,           \* the list the TOC extractor returns
    starts,        \* the chapter starts in PDF page numbers
    tocChapters,   \* the chapters built from starts
    raised,        \* the exception the operation ended with, or "none"
    used_names,    \* export: the lower-cased names taken
    created_files, \* export: the staged files
    temp_dir,      \* export: the staging directory
    archive,       \* export: the file at zip_path
    outline,       \* reader.outline: nested lists of destinations
    destNo,        \* how many destinations the loop over the outline has seen
    outChapters,   \* the chapters of the outline path
    heading_line,  \* _is_chapter_heading's argument
    is_heading,    \* what _is_chapter_heading returned, or "none"
    batch_titles,  \* export_chapters_to_zip: the titles of the chapters
    batch_used,    \* export_chapters_to_zip: used_names
    batch_names,   \* export_chapters_to_zip: the name given to each chapter
    docx_chapter,  \* the DOCX writers: the chapter's title and text
    docx_env,      \* DOCX_SHAPE_ARABIC, and whether arabic_reshaper is there
    docx_blocks,   \* the headings and paragraphs handed to python-docx
    tr_text,       \* translate_text's text argument
    tr_bad,        \* the sentence the translation service fails on, or <<>>
    tr_pieces,     \* translate_text: pieces
    tr_blockNo,    \* translate_text: how many pieces the loop has consumed
    tr_results,    \* translate_text: results
    tr_out,        \* what translate_text returned
    rt_sentences,  \* translate_text: the sentences of the block that failed
    rt_sentNo,     \* which of them _try_translate has, 0 when it has the block
    rt_sent_out,   \* translate_text: sent_out
    rt_attempt,    \* _try_translate: how many attempts have failed
    rt_delay,      \* _try_translate: delay, in tenths of a second
    rt_calls,      \* the calls the translation service has received
    par_chapters,  \* the parallel functions: chapters, each with what the
                   \* translation or speech service does on it
    par_max_workers, \* the max_workers argument
    par_pool,      \* the max_workers of the ThreadPoolExecutor, 0 before it is made
    par_task,      \* the state of each submitted task
    par_results,   \* translate_chapters_parallel: results
    par_written,   \* how many times each slot of results has been assigned
    par_zip,       \* chapters_to_zip_parallel: the entries of the archive
    par_error,     \* the exception the call ended with, or "none"
    api_req,       \* an endpoint of main.py and the form fields of the request
    api_env,       \* what the machine and the uploaded file are like
    api_masked,    \* the exception the endpoint caught and went on from
    api_strategy,  \* the boundary strategy that gave the chapters
    api_count,     \* how many chapters it gave
    api_raised,    \* the exception raised inside the handler's try, or "none"
    api_status     \* the status of the response, 0 before there is one

segVars == <<start_page, pages, page_offset, idx, lineNo, current, chapters, shaped>>

tocVars == <<printed_to_pdf_offset, all_entries, toc, starts, tocChapters, raised,
             used_names, created_files, temp_dir, archive>>

outVars == <<outline, destNo, outChapters>>

headVars == <<heading_line, is_heading>>

nameVars == <<batch_titles, batch_used, batch_names>>

docxVars == <<docx_chapter, docx_env, docx_blocks>>

rtVars == <<rt_sentences, rt_sentNo, rt_sent_out, rt_attempt, rt_delay, rt_calls>>

trVars == <<tr_text, tr_bad, tr_pieces, tr_blockNo, tr_results, tr_out, rtVars>>

parVars == <<par_chapters, par_max_workers, par_pool, par_task, par_results,
             par_written, par_zip, par_error>>

apiVars == <<api_req, api_env, api_masked, api_strategy, api_count, api_raised,
             api_status>>

restVars == <<headVars, nameVars, docxVars, trVars, parVars, apiVars>>

vars == <<op, pc, pdfPages, segVars, tocVars, restVars, outVars, restVars>>

---------------------------------------------------------------------------
(* Bounds of the model. *)

MaxPages == 3
MaxOffset == 2
MaxStartPage == 3

---------------------------------------------------------------------------
(* Strings. *)

NL == "\n"

Chars(s) == [i \in 1..Len(s) |-> SubSeq(s, i, i)]

Min(a, b) == IF a < b THEN a ELSE b
Max(a, b) == IF a > b THEN a ELSE b

\* [ء-ي]: the Arabic letters the model's alphabet holds.
ArabicLetters == {"ALEF", "BEH", "LAM", "FEH", "SAD", "MEEM", "QAF", "DAL",
                  "TEH_MARBUTA", "NOON"}

LatinDigits == {"0", "1", "2", "3", "4", "5", "6", "7", "8", "9"}

\* [٠-٩], U+0660..U+0669.
ArabicIndicDigits == {"ARABIC_INDIC_0", "ARABIC_INDIC_1", "ARABIC_INDIC_2",
                      "ARABIC_INDIC_3", "ARABIC_INDIC_4", "ARABIC_INDIC_5",
                      "ARABIC_INDIC_6", "ARABIC_INDIC_7", "ARABIC_INDIC_8",
                      "ARABIC_INDIC_9"}

\* Python's \s on str: the ASCII white space and the Unicode spaces.
WhiteSpace == {" ", "\t", "\n", "\r", "\f", "VT", "NBSP"}

\* Python's \d on str: every Unicode decimal digit.
Digits == LatinDigits \cup ArabicIndicDigits

Count(s, S) == Cardinality({i \in 1..Len(s) : s[i] \in S})

StartsWith(s, p) == Len(s) >= Len(p) /\ SubSeq(s, 1, Len(p)) = p

\* The index of the first character of s at or after i that is not in S
\* (Len(s) + 1 when there is none): where a greedy S* starting at i stops.
RECURSIVE SkipWhile(_, _, _)
SkipWhile(s, i, S) ==
    IF i <= Len(s) /\ s[i] \in S THEN SkipWhile(s, i + 1, S) ELSE i

\* str.split("\n")
RECURSIVE SplitNL(_)
SplitNL(s) ==
    LET i == SkipWhile(s, 1, {c \in {s[k] : k \in 1..Len(s)} : c # NL})
    IN  IF i > Len(s) THEN <<s>>
        ELSE <<SubSeq(s, 1, i - 1)>> \o SplitNL(SubSeq(s, i + 1, Len(s)))

\* str.splitlines(), for a str whose only line boundary is "\n": a final
\* line feed ends the last line and opens no empty one.
splitlines(s) ==
    LET parts == SplitNL(s)
    IN  IF parts[Len(parts)] = <<>> THEN SubSeq(parts, 1, Len(parts) - 1)
        ELSE parts

\* sep.join(strs), by halves so that a long list is joined in few levels
RECURSIVE Join(_, _)
Join(sep, strs) ==
    IF strs = <<>> THEN <<>>
    ELSE IF Len(strs) = 1 THEN strs[1]
    ELSE LET half == Len(strs) \div 2
         IN  Join(sep, SubSeq(strs, 1, half)) \o sep
                 \o Join(sep, SubSeq(strs, half + 1, Len(strs)))

---------------------------------------------------------------------------
(* Heading heuristics. *)

HeadingMaxLen == 40

AL_FASL == <<"ALEF", "LAM", "FEH", "SAD", "LAM">>
BAB == <<"BEH", "ALEF", "BEH">>
FASL == <<"FEH", "SAD", "LAM">>

\* ^(?:الفصل|باب)\s+([ء-ي0-9]+)
MarkerWordPattern(line) ==
    \E w \in {AL_FASL, BAB} :
        /\ StartsWith(line, w)
        /\ LET i == Len(w) + 1
               j == SkipWhile(line, i, WhiteSpace)
           IN  /\ j > i
               /\ j <= Len(line)
               /\ line[j] \in ArabicLetters \cup LatinDigits

\* ^(?:فصل)\s*[:\-]?\s*([ء-ي0-9]+)?  Everything after the word
\* is optional.
FaslPattern(line) == StartsWith(line, FASL)

\* ^\s*[\d٠-٩]{1,3}\s*[-.،)]\s+
NumberedItemPattern(line) ==
    LET i == SkipWhile(line, 1, WhiteSpace)
        j == SkipWhile(line, i, Digits)
        k == SkipWhile(line, j, WhiteSpace)
    IN  /\ j - i >= 1
        /\ j - i <= 3
        /\ k <= Len(line)
        /\ line[k] \in {"-", ".", "ARABIC_COMMA", ")"}
        /\ k + 1 <= Len(line)
        /\ line[k + 1] \in WhiteSpace

\* _CHAPTER_PATTERNS
MatchesChapterPattern(line) ==
    \/ MarkerWordPattern(line)
    \/ FaslPattern(line)
    \/ NumberedItemPattern(line)

\* len(arabic_letters) / max(len(line), 1) > 0.4, in integers.
ArabicRatioAbove(line) ==
    LET n == Count(line, ArabicLetters)
    IN  n > 0 /\ 5 * n > 2 * Max(Len(line), 1)

\* A heuristic that leaves out the script test.
ShortLineAnyScript(line) ==
    /\ Len(line) <= HeadingMaxLen
    /\ Count(line, {" "}) > 0
    /\ Count(line, {"ARABIC_FULL_STOP"}) = 0
    /\ Count(line, {"."}) = 0

ShortLineHeuristic(line) ==
    /\ Len(line) <= HeadingMaxLen
    /\ Count(line, {" "}) > 0
    /\ Count(line, {"ARABIC_FULL_STOP"}) = 0
    /\ Count(line, {"."}) = 0
    /\ ArabicRatioAbove(line)

_is_chapter_heading(line) ==
    IF line = <<>> THEN FALSE
    ELSE IF MatchesChapterPattern(line) THEN TRUE
    ELSE ShortLineHeuristic(line)

---------------------------------------------------------------------------
(* Inputs. *)

\* The placeholder title of the leading chapter, "مقدمة".
Preamble == <<"MEEM", "QAF", "DAL", "MEEM", "TEH_MARBUTA">>

BabOne == BAB \o Chars(" 1")
BabTwo == BAB \o Chars(" 2")

\* Page texts as _ocr_pdf_to_pages returns them: the non-empty normalized
\* lines of the page joined by "\n".
OcrPageSamples ==
    { <<>>,
      Chars("Intro text."),
      Chars("Chapter One\nBody A."),
      Chars("Chapter Two\nBody B."),
      BabOne \o Chars("\nBody A."),
      Chars("Body B.\n") \o BabTwo }

\* Page texts a caller of _segment_chapters may pass: any str.
PageSamples == OcrPageSamples \cup { <<NL>> }

RECURSIVE SeqsUpTo(_, _)
SeqsUpTo(S, n) ==
    IF n = 0 THEN { <<>> }
    ELSE LET shorter == SeqsUpTo(S, n - 1)
         IN  shorter \cup { Append(s, x) : s \in {t \in shorter : Len(t) = n - 1},
                                            x \in S }

NoChapter == [title |-> <<>>, content |-> <<>>, page_start |-> 0, page_end |-> 0]

---------------------------------------------------------------------------
(* Text helpers of the callers of the segmenter. *)

LatinLetters ==
    {"a", "b", "c", "d", "e", "f", "g", "h", "i", "j", "k", "l", "m", "n",
     "o", "p", "q", "r", "s", "t", "u", "v", "w", "x", "y", "z",
     "A", "B", "C", "D", "E", "F", "G", "H", "I", "J", "K", "L", "M", "N",
     "O", "P", "Q", "R", "S", "T", "U", "V", "W", "X", "Y", "Z"}

\* sub in s
Contains(s, sub) ==
    \E i \in 1..(Len(s) - Len(sub) + 1) : SubSeq(s, i, i + Len(sub) - 1) = sub

\* str.strip()
Strip(s) ==
    LET keep == SelectSeq([i \in 1..Len(s) |-> i], LAMBDA i : s[i] \notin WhiteSpace)
    IN  IF keep = <<>> THEN <<>> ELSE SubSeq(s, keep[1], keep[Len(keep)])

\* str.split("\n\n")
RECURSIVE SplitBlank(_)
SplitBlank(s) ==
    LET at == {i \in 1..(Len(s) - 1) : s[i] = NL /\ s[i + 1] = NL}
    IN  IF at = {} THEN <<s>>
        ELSE LET i == CHOOSE k \in at : \A j \in at : k <= j
             IN  <<SubSeq(s, 1, i - 1)>> \o SplitBlank(SubSeq(s, i + 2, Len(s)))

_looks_mixed_content(text) ==
    LET has_ar == Count(text, ArabicLetters) > 0
        has_lat == Count(text, LatinLetters) > 0
        has_email_or_url ==
            \/ Contains(text, Chars("@"))
            \/ Contains(text, Chars("http://"))
            \/ Contains(text, Chars("https://"))
            \/ Contains(text, Chars("www."))
    IN  (has_ar /\ has_lat) \/ has_email_or_url

\* get_display(arabic_reshaper.reshape(text)): the work of two libraries,
\* kept opaque: the text under a mark.
Reshaped(text) == <<"RESHAPED">> \o text

\* reshaper: whether the arabic_reshaper import succeeded.
_arabic_shape(text, reshaper) ==
    IF ~reshaper THEN text
    ELSE IF _looks_mixed_content(text) THEN text
    ELSE Reshaped(text)

\* Chapter.as_dict()["content"]
AsDictContent(ch) == Strip(Join(<<NL>>, ch.content))

\* The TOC splitters at rest.
TocIdle ==
    /\ printed_to_pdf_offset = 0
    /\ all_entries = <<>>
    /\ toc = <<>>
    /\ starts = <<>>
    /\ tocChapters = <<>>
    /\ raised = "none"
    /\ used_names = {}
    /\ created_files = <<>>
    /\ temp_dir = "none"
    /\ archive = "absent"

\* The outline splitter at rest.
OutlineIdle ==
    /\ outline = <<>>
    /\ destNo = 0
    /\ outChapters = <<>>

\* _is_chapter_heading at rest.
HeadingIdle ==
    /\ heading_line = <<>>
    /\ is_heading = "none"

\* The naming loop of the exports at rest.
NamesIdle ==
    /\ batch_titles = <<>>
    /\ batch_used = {}
    /\ batch_names = <<>>

\* The DOCX writers at rest.
DocxIdle ==
    /\ docx_chapter = [title |-> <<>>, text |-> <<>>]
    /\ docx_env = [shape |-> FALSE, reshaper |-> FALSE]
    /\ docx_blocks = <<>>

\* _try_translate at rest.
RetryIdle ==
    /\ rt_sentences = <<>>
    /\ rt_sentNo = 0
    /\ rt_sent_out = <<>>
    /\ rt_attempt = 0
    /\ rt_delay = 0
    /\ rt_calls = <<>>

\* translate_text at rest.
TranslateIdle ==
    /\ tr_text = <<>>
    /\ tr_bad = <<>>
    /\ tr_pieces = <<>>
    /\ tr_blockNo = 0
    /\ tr_results = <<>>
    /\ tr_out = <<>>
    /\ RetryIdle

\* The parallel functions at rest.
ParallelIdle ==
    /\ par_chapters = <<>>
    /\ par_max_workers = [given |-> FALSE, value |-> 0]
    /\ par_pool = 0
    /\ par_task = <<>>
    /\ par_results = <<>>
    /\ par_written = <<>>
    /\ par_zip = <<>>
    /\ par_error = "none"

\* The endpoints at rest.
ApiIdle ==
    /\ api_req = [endpoint |-> "none", use_toc |-> FALSE, fallback_pages |-> 0,
                  chapter_index |-> [given |-> FALSE, value |-> 0]]
    /\ api_env = [is_pdf |-> TRUE, ocr |-> "ok", toc |-> 0]
    /\ api_masked = "none"
    /\ api_strategy = "none"
    /\ api_count = 0
    /\ api_raised = "none"
    /\ api_status = 0

\* Everything but the three splitters at rest.
RestIdle ==
    /\ HeadingIdle
    /\ NamesIdle
    /\ DocxIdle
    /\ TranslateIdle
    /\ ParallelIdle
    /\ ApiIdle

\* The segmenter at rest.
SegIdle ==
    /\ start_page = 1
    /\ pages = <<>>
    /\ page_offset = 0
    /\ idx = 0
    /\ lineNo = 0
    /\ current = NoChapter
    /\ chapters = <<>>
    /\ shaped = <<>>

---------------------------------------------------------------------------
(* _segment_chapters, line by line. *)

\* The page numbers the code computes: of the leading chapter, of a chapter
\* sealed by a heading on local page i, of the chapter that heading opens,
\* and of the current chapter when local page i ends.
\* A segmenter that forgets the offset of the leading chapter.
FirstPageUnshifted(offset) == 1

FirstPage(offset) == 1 + offset

\* A segmenter that seals a chapter on the page before the heading's.
SealPagePrevious(i, offset) == i + offset - 1

SealPage(i, offset) == i + offset

OpenPage(i, offset) == i + offset

EndOfPage(i, offset) == i + offset

NewChapter(title, page) ==
    [title |-> title, content |-> <<>>, page_start |-> page, page_end |-> page]

\* A segmenter that starts a chapter at every heading.
StartsOnHeading(line, cur) == _is_chapter_heading(line)

\* The condition of the if: a heading, and current.content is truthy.
StartsNewChapter(line, cur) == _is_chapter_heading(line) /\ cur.content # <<>>

Lines(i) == splitlines(pages[i])

SegInit ==
    /\ \/ /\ op = "_segment_chapters"
          /\ pc = "segment"
          /\ pages \in SeqsUpTo(PageSamples, MaxPages)
          /\ page_offset \in 0..MaxOffset
          /\ pdfPages = <<>>
          /\ start_page = 1
       \/ /\ op \in {"extract_chapters_as_json", "pdf_to_word_chapters"}
          /\ pc = "slice"
          /\ pdfPages \in SeqsUpTo(OcrPageSamples, MaxPages)
          /\ start_page \in 0..MaxStartPage
          /\ pages = <<>>
          /\ page_offset = 0
    /\ idx = 0
    /\ lineNo = 0
    /\ current = NoChapter
    /\ chapters = <<>>
    /\ shaped = <<>>
    /\ TocIdle
    /\ OutlineIdle
    /\ RestIdle

\* A caller that shifts the page numbers and keeps every page.
SliceNothing(ps, offset) == ps

\* pages[page_offset:]
SliceFrom(ps, offset) == SubSeq(ps, offset + 1, Len(ps))

\* extract_chapters_as_json and pdf_to_word_chapters, up to the call of
\* _segment_chapters.
SlicePages ==
    /\ pc = "slice"
    /\ IF start_page > 1
       THEN /\ page_offset' = start_page - 1
            /\ pages' = SliceFrom(pdfPages, start_page - 1)
       ELSE /\ page_offset' = 0
            /\ pages' = pdfPages
    /\ pc' = "segment"
    /\ UNCHANGED <<tocVars, outVars, restVars>>
    /\ UNCHANGED <<op, pdfPages, start_page, idx, lineNo, current, chapters, shaped>>

SegmentBegin ==
    /\ pc = "segment"
    /\ chapters' = <<>>
    /\ current' = NewChapter(Preamble, FirstPage(page_offset))
    /\ idx' = 0
    /\ lineNo' = 0
    /\ pc' = "page"
    /\ UNCHANGED <<tocVars, outVars, restVars>>
    /\ UNCHANGED <<op, pdfPages, start_page, pages, page_offset, shaped>>

SegmentNextPage ==
    /\ pc = "page"
    /\ IF idx < Len(pages)
       THEN /\ idx' = idx + 1
            /\ lineNo' = 0
            /\ pc' = "line"
       ELSE /\ pc' = "return"
            /\ UNCHANGED <<idx, lineNo>>
    /\ UNCHANGED <<tocVars, outVars, restVars>>
    /\ UNCHANGED <<op, pdfPages, start_page, pages, page_offset, current, chapters, shaped>>

SegmentLine ==
    /\ pc = "line"
    /\ lineNo < Len(Lines(idx))
    /\ LET line == Lines(idx)[lineNo + 1]
       IN  IF StartsNewChapter(line, current)
           THEN /\ chapters' = Append(chapters,
                        [current EXCEPT !.page_end = SealPage(idx, page_offset)])
                /\ current' = NewChapter(line, OpenPage(idx, page_offset))
           ELSE /\ current' = [current EXCEPT !.content = Append(@, line)]
                /\ UNCHANGED chapters
    /\ lineNo' = lineNo + 1
    /\ UNCHANGED <<tocVars, outVars, restVars>>
    /\ UNCHANGED <<op, pc, pdfPages, start_page, pages, page_offset, idx, shaped>>

SegmentEndPage ==
    /\ pc = "line"
    /\ lineNo = Len(Lines(idx))
    /\ current' = [current EXCEPT !.page_end = EndOfPage(idx, page_offset)]
    /\ pc' = "page"
    /\ UNCHANGED <<tocVars, outVars, restVars>>
    /\ UNCHANGED <<op, pdfPages, start_page, pages, page_offset, idx, lineNo, chapters, shaped>>

SegmentReturn ==
    /\ pc = "return"
    /\ chapters' = IF current.content # <<>> THEN Append(chapters, current) ELSE chapters
    /\ pc' = IF op = "_segment_chapters" THEN "done" ELSE "render"
    /\ UNCHANGED <<tocVars, outVars, restVars>>
    /\ UNCHANGED <<op, pdfPages, start_page, pages, page_offset, idx, lineNo, current, shaped>>

\* extract_chapters_as_json, after the call.
ShapeChapter(ch, reshaper) ==
    [title |-> _arabic_shape(ch.title, reshaper),
     content |-> _arabic_shape(AsDictContent(ch), reshaper),
     page_start |-> ch.page_start,
     page_end |-> ch.page_end]

ExtractReturn ==
    /\ pc = "render"
    /\ op = "extract_chapters_as_json"
    /\ \E reshaper \in BOOLEAN :
          shaped' = [i \in 1..Len(chapters) |-> ShapeChapter(chapters[i], reshaper)]
    /\ pc' = "done"
    /\ UNCHANGED <<tocVars, outVars, restVars>>
    /\ UNCHANGED <<op, pdfPages, start_page, pages, page_offset, idx, lineNo, current, chapters>>

\* pdf_to_word_chapters, after the call: the heading and the paragraphs of
\* each chapter, as handed to the document.
ShapeForDocx(text, shape, reshaper) ==
    IF shape /\ ~_looks_mixed_content(text) THEN _arabic_shape(text, reshaper) ELSE text

Paragraphs(ch) ==
    LET blocks == SplitBlank(Join(<<NL>>, ch.content))
        kept == SelectSeq([i \in 1..Len(blocks) |-> Strip(blocks[i])],
                          LAMBDA b : b # <<>>)
    IN  kept

DocxBlocks(ch, shape, reshaper) ==
    <<[kind |-> "heading", text |-> ShapeForDocx(ch.title, shape, reshaper)]>>
    \o [i \in 1..Len(Paragraphs(ch)) |->
            [kind |-> "paragraph",
             text |-> ShapeForDocx(Paragraphs(ch)[i], shape, reshaper)]]

Concat(ss) == Join(<<>>, ss)

WordReturn ==
    /\ pc = "render"
    /\ op = "pdf_to_word_chapters"
    /\ \E shape \in BOOLEAN, reshaper \in BOOLEAN :
          shaped' = Concat([i \in 1..Len(chapters) |->
                               DocxBlocks(chapters[i], shape, reshaper)])
    /\ pc' = "done"
    /\ UNCHANGED <<tocVars, outVars, restVars>>
    /\ UNCHANGED <<op, pdfPages, start_page, pages, page_offset, idx, lineNo, current, chapters>>

SegNext ==
    \/ SlicePages
    \/ SegmentBegin
    \/ SegmentNextPage
    \/ SegmentLine
    \/ SegmentEndPage
    \/ SegmentReturn
    \/ ExtractReturn
    \/ WordReturn

SpecSeg == SegInit /\ [][SegNext]_vars

---------------------------------------------------------------------------
(* File names. *)

DigitChars == Chars("0123456789")

\* str(n), n >= 0
RECURSIVE Decimal(_)
Decimal(n) ==
    IF n < 10 THEN <<DigitChars[n + 1]>>
    ELSE Decimal(n \div 10) \o <<DigitChars[(n % 10) + 1]>>

\* f"{n:02d}"
TwoDigits(n) == IF n < 10 THEN <<"0">> \o Decimal(n) ELSE Decimal(n)

UpperCase == Chars("ABCDEFGHIJKLMNOPQRSTUVWXYZ")
LowerCase == Chars("abcdefghijklmnopqrstuvwxyz")

LowerChar(c) ==
    IF \E i \in 1..Len(UpperCase) : UpperCase[i] = c
    THEN LowerCase[CHOOSE i \in 1..Len(UpperCase) : UpperCase[i] = c]
    ELSE c

\* str.lower()
Lower(s) == [i \in 1..Len(s) |-> LowerChar(s[i])]

\* str.strip(chars)
StripChars(s, S) ==
    LET first == SkipWhile(s, 1, S)
        keep == {i \in 1..Len(s) : s[i] \notin S}
        last == IF keep = {} THEN 0 ELSE CHOOSE i \in keep : \A j \in keep : j <= i
    IN  SubSeq(s, first, last)

\* re.sub(r"[S]+", rep, s): each maximal run of characters of S becomes rep.
RECURSIVE ReplaceRuns(_, _, _)
ReplaceRuns(s, S, r) ==
    IF s = <<>> THEN <<>>
    ELSE IF s[1] \in S
         THEN r \o ReplaceRuns(SubSeq(s, SkipWhile(s, 1, S), Len(s)), S, r)
         ELSE <<s[1]>> \o ReplaceRuns(Tail(s), S, r)

FileNameMaxLen == 120

\* [\s‏‎]
SpaceOrMark == WhiteSpace \cup {"RLM", "LRM"}

\* [ء-يa-zA-Z0-9_\-()\[\]{}]
FileNameChars ==
    ArabicLetters \cup LatinLetters \cup LatinDigits
        \cup {"_", "-", "(", ")", "[", "]", "{", "}"}

_sanitize_filename(name, fallback) ==
    LET stripped == Strip(name)
        joined == ReplaceRuns(stripped, SpaceOrMark, <<"_">>)
        kept == SelectSeq(joined, LAMBDA c : c \in FileNameChars)
        trimmed == StripChars(kept, {".", "_", "-", " "})
        named == IF trimmed = <<>> THEN fallback ELSE trimmed
    IN  SubSeq(named, 1, Min(Len(named), FileNameMaxLen))

\* The name's first free form: name, name_1, name_2, ...
RECURSIVE UniqueName(_, _, _)
UniqueName(base, k, used) ==
    LET name == IF k = 0 THEN base ELSE base \o <<"_">> \o Decimal(k)
    IN  IF Lower(name) \in used THEN UniqueName(base, k + 1, used) ELSE name

---------------------------------------------------------------------------
(* The table-of-contents splitters. *)

MaxTocEntries == 3
MaxTocOffset == 1
MaxTotalPages == 10

TocTitles == { Chars("Introduction"), Chars("Chapter One") }

PrintedPages == {1, 3, 5}

\* The documents: their page count, and the page _ocr_pdf_to_pages found no
\* text on (0: none).
Documents ==
    { [n |-> 0, blank |-> 0], [n |-> 2, blank |-> 0], [n |-> 3, blank |-> 2],
      [n |-> MaxTotalPages, blank |-> 0] }

TocEntries == [title : TocTitles, printed_page : PrintedPages]

\* The text of page p of a document whose page blank is empty.
OcrText(p, blank) == IF p = blank THEN <<>> ELSE Chars("page ") \o Decimal(p)

\* Insertion of x into a list sorted by key, after the elements whose key is
\* not larger: list.sort(key=...) is stable.
RECURSIVE InsertByKey(_, _)
InsertByKey(sorted, x) ==
    IF sorted = <<>> THEN <<x>>
    ELSE IF sorted[Len(sorted)].key <= x.key THEN Append(sorted, x)
    ELSE Append(InsertByKey(SubSeq(sorted, 1, Len(sorted) - 1), x),
                sorted[Len(sorted)])

\* keyed: a list of [key, val] records.
RECURSIVE SortKeyed(_)
SortKeyed(keyed) ==
    IF keyed = <<>> THEN <<>>
    ELSE InsertByKey(SortKeyed(SubSeq(keyed, 1, Len(keyed) - 1)), keyed[Len(keyed)])

\* list.sort(key=lambda x: x["printed_page"])
SortByPrintedPage(list) ==
    LET sorted == SortKeyed([i \in 1..Len(list) |->
                                [key |-> list[i].printed_page, val |-> list[i]]])
    IN  [i \in 1..Len(sorted) |-> sorted[i].val]

\* list.sort(key=lambda x: x["pdf_page"])
SortByPdfPage(list) ==
    LET sorted == SortKeyed([i \in 1..Len(list) |->
                                [key |-> list[i].pdf_page, val |-> list[i]]])
    IN  [i \in 1..Len(sorted) |-> sorted[i].val]

\* list(dedup.values()): a dict keeps each key at its first insertion.
Dedup(list) ==
    SelectSeq([i \in 1..Len(list) |-> [at |-> i, e |-> list[i]]],
              LAMBDA x : \A j \in 1..(x.at - 1) : list[j] # x.e)

DedupEntries(list) == [i \in 1..Len(Dedup(list)) |-> Dedup(list)[i].e]

\* extract_toc_entries_range, from the parsed entries on.
extract_toc_entries_range(entries) == SortByPrintedPage(DedupEntries(entries))

\* extract_toc_entries: the parsed entries as they come.
extract_toc_entries(entries) == entries

PhysicalPage(printed, offset) == printed + offset

\* A range test that lets page 0 through.
InPdfRangeFromZero(p, total) == 0 <= p /\ p <= total

InPdfRange(p, total) == 1 <= p /\ p <= total

\* The starts list after the loop over toc and the sort.
MapStarts(entries, offset, total) ==
    LET mapped == [i \in 1..Len(entries) |->
                      [title |-> entries[i].title,
                       pdf_page |-> PhysicalPage(entries[i].printed_page, offset)]]
    IN  SortByPdfPage(SelectSeq(mapped, LAMBDA m : InPdfRange(m.pdf_page, total)))

\* A splitter that goes on without a chapter start.
NeverEmpty(list) == FALSE

NoStarts(list) == list = <<>>

\* seq[a:b] for 0 <= a and 0 <= b
PySlice(seq, a, b) ==
    IF b <= a THEN <<>> ELSE SubSeq(seq, a + 1, Min(b, Len(seq)))

\* An end page under the outline's convention: the next start itself.
EndPageExclusive(ss, i, total) ==
    IF i + 1 <= Len(ss) THEN ss[i + 1].pdf_page ELSE total

\* The end page of chapter i: the page before the next start, or the last.
EndPage(ss, i, total) ==
    IF i + 1 <= Len(ss) THEN ss[i + 1].pdf_page - 1 ELSE total

\* A slice that starts one page late.
SplitSliceLate(ps, start_p, end_p) == PySlice(ps, start_p, end_p)

\* split_pdf_by_toc: pages[start_idx:end_idx]
SplitSlice(ps, start_p, end_p) ==
    LET start_idx == Max(0, start_p - 1)
        end_idx == Max(start_idx, Min(end_p, Len(ps)))
    IN  PySlice(ps, start_idx, end_idx)

\* export_chapters_to_zip_from_toc: pages[start_p - 1:end_p]
ExportSlice(ps, start_p, end_p) == PySlice(ps, start_p - 1, end_p)

SplitChapter(ss, i, ps) ==
    [title |-> ss[i].title,
     start_page |-> ss[i].pdf_page,
     end_page |-> EndPage(ss, i, Len(ps)),
     text |-> Join(<<NL>>, SplitSlice(ps, ss[i].pdf_page, EndPage(ss, i, Len(ps))))]

ExportChapter(ss, i, ps) ==
    [title |-> ss[i].title,
     content |-> Join(<<NL>>, ExportSlice(ps, ss[i].pdf_page, EndPage(ss, i, Len(ps)))),
     page_start |-> ss[i].pdf_page,
     page_end |-> EndPage(ss, i, Len(ps))]

TocInit ==
    /\ op \in {"split_pdf_by_toc", "export_chapters_to_zip_from_toc"}
    /\ pc = "toc"
    /\ \E d \in Documents : pdfPages = [p \in 1..d.n |-> OcrText(p, d.blank)]
    /\ all_entries \in SeqsUpTo(TocEntries, MaxTocEntries)
    /\ printed_to_pdf_offset \in (0 - MaxTocOffset)..MaxTocOffset
    /\ toc = <<>>
    /\ starts = <<>>
    /\ tocChapters = <<>>
    /\ raised = "none"
    /\ used_names = {}
    /\ created_files = <<>>
    /\ temp_dir = "none"
    /\ archive = "absent"
    /\ SegIdle
    /\ OutlineIdle
    /\ RestIdle

\* Both splitters: the TOC entries, or RuntimeError when there is none.
TocExtract ==
    /\ pc = "toc"
    /\ LET got == IF op = "split_pdf_by_toc"
                  THEN extract_toc_entries_range(all_entries)
                  ELSE extract_toc_entries(all_entries)
       IN  /\ toc' = got
           /\ IF got = <<>>
              THEN raised' = "RuntimeError: No TOC entries detected" /\ pc' = "raised"
              ELSE raised' = raised /\ pc' = "starts"
    /\ UNCHANGED <<op, pdfPages, segVars, outVars, restVars, printed_to_pdf_offset, all_entries, starts,
                   tocChapters, used_names, created_files, temp_dir, archive>>

\* Both splitters: the starts, or RuntimeError when none is in range.
TocStarts ==
    /\ pc = "starts"
    /\ LET ss == MapStarts(toc, printed_to_pdf_offset, Len(pdfPages))
       IN  /\ starts' = ss
           /\ IF NoStarts(ss)
              THEN /\ raised' = "RuntimeError: TOC pages map outside the PDF range"
                   /\ pc' = "raised"
                   /\ UNCHANGED temp_dir
              ELSE /\ raised' = raised
                   /\ pc' = "chapters"
                   /\ temp_dir' = IF op = "export_chapters_to_zip_from_toc"
                                  THEN "exists" ELSE temp_dir
    /\ UNCHANGED <<op, pdfPages, segVars, outVars, restVars, printed_to_pdf_offset, all_entries, toc,
                   tocChapters, used_names, created_files, archive>>

\* split_pdf_by_toc: the chapter list it returns.
SplitReturn ==
    /\ pc = "chapters"
    /\ op = "split_pdf_by_toc"
    /\ tocChapters' = [i \in 1..Len(starts) |-> SplitChapter(starts, i, pdfPages)]
    /\ pc' = "done"
    /\ UNCHANGED <<op, pdfPages, segVars, outVars, restVars, printed_to_pdf_offset, all_entries, toc,
                   starts, raised, used_names, created_files, temp_dir, archive>>

ChapterFallback(i) == Chars("chapter_") \o Decimal(i)

\* export_chapters_to_zip_from_toc: one round of the loop over starts, which
\* names chapter i and stages its document.
ExportStage ==
    /\ pc = "chapters"
    /\ op = "export_chapters_to_zip_from_toc"
    /\ Len(tocChapters) < Len(starts)
    /\ LET i == Len(tocChapters) + 1
           ch == ExportChapter(starts, i, pdfPages)
           base == _sanitize_filename(
                       IF ch.title # <<>> THEN ch.title ELSE ChapterFallback(i),
                       ChapterFallback(i))
           name == UniqueName(base, 0, used_names)
       IN  /\ tocChapters' = Append(tocChapters, ch)
           /\ used_names' = used_names \cup {Lower(name)}
           /\ created_files' = Append(created_files,
                  TwoDigits(i) \o <<"_">> \o name \o Chars(".docx"))
    /\ UNCHANGED <<op, pc, pdfPages, segVars, outVars, restVars, printed_to_pdf_offset, all_entries, toc,
                   starts, raised, temp_dir, archive>>

\* export_chapters_to_zip_from_toc: the archive is written from the staged
\* files, the staging directory removed, and the counts returned.
ExportReturn ==
    /\ pc = "chapters"
    /\ op = "export_chapters_to_zip_from_toc"
    /\ Len(tocChapters) = Len(starts)
    /\ archive' = created_files
    /\ temp_dir' = "removed"
    /\ pc' = "done"
    /\ UNCHANGED <<op, pdfPages, segVars, outVars, restVars, printed_to_pdf_offset, all_entries, toc,
                   starts, tocChapters, raised, used_names, created_files>>

TocNext ==
    \/ TocExtract
    \/ TocStarts
    \/ SplitReturn
    \/ ExportStage
    \/ ExportReturn

SpecToc == TocInit /\ [][TocNext]_vars

---------------------------------------------------------------------------
(* The outline splitter: _chapters_from_outline, _chapters_by_heuristics and
   split_pdf_into_chapters.  Pages are numbered from 0 here; page p of the
   reader is pdfPages[p + 1]. *)

MaxDests == 2
MaxOutlinePages == 8

OutlineTitles == { Chars("A"), Chars("B") }

\* The page indexes reader.get_destination_page_number may give in a
\* document of n pages.
ResolvedPages(n) == {0, 2, 5} \cap (0..(n - 1))

\* The None that get_destination_page_number returns for a destination whose
\* page is not a page of the document; a page index is never negative.
NoPage == 0 - 1

\* A destination: its title, and what get_destination_page_number gives for
\* it (a page index, or None), unless the call raises.
Destination(title, raises, page) ==
    [kind |-> "dest", title |-> title, raises |-> raises, page |-> page]

Destinations(n) ==
    {Destination(t, FALSE, q) : t \in OutlineTitles, q \in ResolvedPages(n)}
        \cup {Destination(t, TRUE, 0) : t \in OutlineTitles}
        \cup {Destination(t, FALSE, NoPage) : t \in OutlineTitles}

List(items) == [kind |-> "list", items |-> items]

\* The ways the model nests a list of destinations: as it is, with all but
\* the first in a child list, and two levels down.
Nestings(dests) ==
    { dests, <<List(dests)>>, <<List(<<List(dests)>>)>> }
        \cup (IF dests = <<>> THEN {} ELSE { <<Head(dests), List(Tail(dests))>> })

\* flatten(items): the destinations of a nested list, depth first.
RECURSIVE flatten(_)
flatten(items) ==
    IF items = <<>> THEN <<>>
    ELSE (IF Head(items).kind = "list" THEN flatten(Head(items).items)
          ELSE <<Head(items)>>)
         \o flatten(Tail(items))

\* The text _extract_page_text gives for page p (from 1) of document d.
PdfText(p, d) ==
    IF p = d.blank THEN <<>>
    ELSE (IF p \in d.headed THEN Chars("Chapter ") \o Decimal(p) \o <<NL>> ELSE <<>>)
         \o Chars("page ") \o Decimal(p)

PdfDocuments ==
    { [n |-> 0, blank |-> 0, headed |-> {}],
      [n |-> 3, blank |-> 2, headed |-> {}],
      [n |-> 3, blank |-> 0, headed |-> {1, 3}],
      [n |-> MaxOutlinePages, blank |-> 3, headed |-> {}],
      [n |-> MaxOutlinePages, blank |-> 0, headed |-> {2, 6}] }

NumPages == Len(pdfPages)

\* sorted(chapters, key=lambda c: c["start_page"]) compares None with another
\* key and raises TypeError as soon as the list has two elements.
SortRaises(list) ==
    /\ Len(list) >= 2
    /\ \E i \in 1..Len(list) : list[i].start_page = NoPage

\* sorted(chapters, key=lambda c: c["start_page"])
SortByStartPage(list) ==
    LET sorted == SortKeyed([i \in 1..Len(list) |->
                                [key |-> list[i].start_page, val |-> list[i]]])
    IN  [i \in 1..Len(sorted) |-> sorted[i].val]

\* The exclusive end of chapter i of the sorted list.
OutlineEndPage(list, i, n) ==
    IF i + 1 <= Len(list) THEN list[i + 1].start_page ELSE n

WithEndPages(list, n) ==
    [i \in 1..Len(list) |->
        [title |-> list[i].title,
         start_page |-> list[i].start_page,
         end_page |-> OutlineEndPage(list, i, n)]]

WordChars == LatinLetters \cup LatinDigits \cup {"_"}

\* ^(?:CHAPTER|Chapter|SECTION|Section)\b
MarkerWordHeading(line) ==
    \E w \in {Chars("CHAPTER"), Chars("Chapter"), Chars("SECTION"), Chars("Section")} :
        /\ StartsWith(line, w)
        /\ Len(line) > Len(w) => line[Len(w) + 1] \notin WordChars

\* ^\d+\s*[.-]\s+.+
NumberedHeading(line) ==
    LET j == SkipWhile(line, 1, Digits)
        k == SkipWhile(line, j, WhiteSpace)
    IN  /\ j > 1
        /\ k <= Len(line)
        /\ line[k] \in {".", "-"}
        /\ k + 2 <= Len(line)
        /\ line[k + 1] \in WhiteSpace
        /\ \A m \in (k + 2)..Len(line) : line[m] # NL

heading_re(line) == MarkerWordHeading(line) \/ NumberedHeading(line)

\* The heading found on a page: the first of its first 5 lines that
\* heading_re matches, stripped; <<>> when there is none (a stripped line
\* that matches is never empty).
FoundHeading(text) ==
    LET all == splitlines(Strip(text))
        first_lines == SubSeq(all, 1, Min(5, Len(all)))
        hits == {k \in 1..Len(first_lines) : heading_re(Strip(first_lines[k]))}
    IN  IF hits = {} THEN <<>>
        ELSE Strip(first_lines[CHOOSE k \in hits : \A m \in hits : k <= m])

\* The pages (from 0) on which _chapters_by_heuristics finds a heading.
HeadingPages(ps) == {i \in 0..(Len(ps) - 1) : FoundHeading(ps[i + 1]) # <<>>}

\* The heading pages in ascending order.
RECURSIVE Ascending(_)
Ascending(S) ==
    IF S = {} THEN <<>>
    ELSE LET least == CHOOSE x \in S : \A y \in S : x <= y
         IN  <<least>> \o Ascending(S \ {least})

_chapters_by_heuristics(ps) ==
    LET at == Ascending(HeadingPages(ps))
        found == [k \in 1..Len(at) |->
                     [title |-> FoundHeading(ps[at[k] + 1]),
                      start_page |-> at[k],
                      end_page |-> IF k < Len(at) THEN at[k + 1] ELSE Len(ps)]]
    IN  IF found = <<>>
        THEN << [title |-> Chars("Document"), start_page |-> 0, end_page |-> Len(ps)] >>
        ELSE found

\* A range that takes the end page in.
PageRangeInclusive(start, end, n) == start..Min(end, n - 1)

\* range(start, min(end, len(reader.pages)))
PageRange(start, end, n) == start..(Min(end, n) - 1)

\* "\n".join(filter(None, parts)) over the pages of the range.
ChapterText(ch, ps) ==
    LET range == Ascending(PageRange(ch.start_page, ch.end_page, Len(ps)))
        parts == [k \in 1..Len(range) |-> ps[range[k] + 1]]
    IN  Join(<<NL>>, SelectSeq(parts, LAMBDA t : t # <<>>))

OutlineInit ==
    /\ op = "split_pdf_into_chapters"
    /\ pc = "outline"
    /\ \E d \in PdfDocuments :
          /\ pdfPages = [p \in 1..d.n |-> PdfText(p, d)]
          /\ \E dests \in SeqsUpTo(Destinations(d.n), MaxDests) :
                outline \in Nestings(dests)
    /\ destNo = 0
    /\ outChapters = <<>>
    /\ SegIdle
    /\ TocIdle
    /\ RestIdle

\* _chapters_from_outline: reader.outline is read; when that raises, or the
\* outline is empty, the function returns no chapter.
OutlineRead ==
    /\ pc = "outline"
    /\ \E readable \in BOOLEAN :
          IF readable /\ outline # <<>> THEN pc' = "resolve" ELSE pc' = "heuristics"
    /\ UNCHANGED <<op, pdfPages, segVars, tocVars, restVars, outVars>>

\* _chapters_from_outline: one round of the loop over flatten(outline); a
\* destination whose page number cannot be had is passed over.
OutlineResolve ==
    /\ pc = "resolve"
    /\ destNo < Len(flatten(outline))
    /\ LET dest == flatten(outline)[destNo + 1]
       IN  outChapters' =
               IF dest.raises THEN outChapters
               ELSE Append(outChapters, [title |-> dest.title, start_page |-> dest.page])
    /\ destNo' = destNo + 1
    /\ UNCHANGED <<op, pc, pdfPages, segVars, tocVars, restVars, outline>>

\* What _chapters_from_outline returns for the chapters its loop has
\* collected: sorted and with end pages, or [] from the outer except clause
\* when the sort raises.
OutlineSorted(list, n) ==
    IF SortRaises(list) THEN <<>> ELSE WithEndPages(SortByStartPage(list), n)

\* _chapters_from_outline: the sort, the end pages and the return; with no
\* chapter, split_pdf_into_chapters turns to the heuristics.
OutlineReturn ==
    /\ pc = "resolve"
    /\ destNo = Len(flatten(outline))
    /\ outChapters' = OutlineSorted(outChapters, NumPages)
    /\ pc' = IF outChapters' = <<>> THEN "heuristics" ELSE "text"
    /\ UNCHANGED <<op, pdfPages, segVars, tocVars, restVars, outline, destNo>>

HeuristicChapters ==
    /\ pc = "heuristics"
    /\ outChapters' = _chapters_by_heuristics(pdfPages)
    /\ pc' = "text"
    /\ UNCHANGED <<op, pdfPages, segVars, tocVars, restVars, outline, destNo>>

\* int(ch["start_page"]) raises TypeError for None.
IntRaises(list) == \E i \in 1..Len(list) : list[i].start_page = NoPage

\* The loop of split_pdf_into_chapters that gives each chapter its text.
WithTexts(list, ps) ==
    [i \in 1..Len(list) |->
        [title |-> list[i].title,
         start_page |-> list[i].start_page,
         end_page |-> list[i].end_page,
         text |-> ChapterText(list[i], ps)]]

\* split_pdf_into_chapters: each chapter gets its text, unless the
\* conversion of a start page raises.
SplitIntoChaptersReturn ==
    /\ pc = "text"
    /\ IF IntRaises(outChapters)
       THEN pc' = "raised" /\ UNCHANGED outChapters
       ELSE pc' = "done" /\ outChapters' = WithTexts(outChapters, pdfPages)
    /\ UNCHANGED <<op, pdfPages, segVars, tocVars, restVars, outline, destNo>>

OutlineNext ==
    \/ OutlineRead
    \/ OutlineResolve
    \/ OutlineReturn
    \/ HeuristicChapters
    \/ SplitIntoChaptersReturn

SpecOutline == OutlineInit /\ [][OutlineNext]_vars

---------------------------------------------------------------------------
(* The heuristic segmenter: what _segment_chapters returns. *)

Returned == pc \in {"render", "done"}

InRange(p, ch) == ch.page_start <= p /\ p <= ch.page_end

Covering(p) == {i \in 1..Len(chapters) : InRange(p, chapters[i])}

HasLine(i) == Lines(i) # <<>>

LastChapter == chapters[Len(chapters)]

ScenarioPages ==
    << Chars("Intro text."),
       Chars("Chapter One\nBody A."),
       Chars("Chapter Two\nBody B.") >>

ScenarioRun ==
    /\ op = "_segment_chapters"
    /\ pc = "done"
    /\ pages = ScenarioPages
    /\ page_offset = 0

PagesOf(ch) == <<ch.title, ch.page_start, ch.page_end>>

\* C8 as the spec states it: the scenario yields 3 chapters, the preamble
\* on pages 1-1, "Chapter One" on 2-2 and "Chapter Two" on 3-3.
C8_ScenarioThreeChapters ==
    ScenarioRun =>
        /\ Len(chapters) = 3
        /\ PagesOf(chapters[1]) = <<Preamble, 1, 1>>
        /\ PagesOf(chapters[2]) = <<Chars("Chapter One"), 2, 2>>
        /\ PagesOf(chapters[3]) = <<Chars("Chapter Two"), 3, 3>>

\* C8, amended: the scenario yields exactly 1 chapter, the preamble on pages
\* 1-3 holding all five lines: "Chapter One" and "Chapter Two" hold no
\* Arabic letter and match no pattern, so neither is a heading.
C8_ScenarioOneChapter ==
    ScenarioRun =>
        chapters = << [title |-> Preamble,
                       content |-> << Chars("Intro text."), Chars("Chapter One"),
                                      Chars("Body A."), Chars("Chapter Two"),
                                      Chars("Body B.") >>,
                       page_start |-> 1,
                       page_end |-> 3] >>

C8_Witness == ScenarioRun /\ Len(chapters) = 1

\* The lines of the chapters in order: each title but the placeholder's,
\* then the content.
ChapterLines(i) ==
    (IF i = 1 THEN <<>> ELSE <<chapters[i].title>>) \o chapters[i].content

EmittedLines == Concat([i \in 1..Len(chapters) |-> ChapterLines(i)])

\* The lines of the document from page s on.
DocumentLinesFrom(s) ==
    Concat([i \in 1..(Len(pdfPages) - s + 1) |-> splitlines(pdfPages[i + s - 1])])

IsPrefix(a, b) == Len(a) <= Len(b) /\ SubSeq(b, 1, Len(a)) = a

OnPage(line, p) ==
    \E k \in 1..Len(splitlines(pdfPages[p])) : splitlines(pdfPages[p])[k] = line

FromStartPage ==
    /\ op \in {"extract_chapters_as_json", "pdf_to_word_chapters"}
    /\ start_page > 1
    /\ Returned

\* C10: with start_page = s > 1 the first s-1 pages give no line to any
\* chapter, every page_start and page_end is a page number of the document
\* in [s, total_pages] (a chapter opened by a heading carries the number of
\* the document page that heading is on), and page_start <= page_end.
C10_OriginalPageNumbers ==
    FromStartPage =>
        /\ IsPrefix(EmittedLines, DocumentLinesFrom(start_page))
        /\ Len(EmittedLines) >= Len(DocumentLinesFrom(start_page)) - 1
        /\ \A i \in 1..Len(chapters) :
               /\ start_page <= chapters[i].page_start
               /\ chapters[i].page_start <= chapters[i].page_end
               /\ chapters[i].page_end <= Len(pdfPages)
               /\ i = 1 => chapters[i].page_start = start_page
               /\ i > 1 => OnPage(chapters[i].title, chapters[i].page_start)
        /\ (pc = "done" /\ op = "extract_chapters_as_json") =>
               /\ Len(shaped) = Len(chapters)
               /\ \A i \in 1..Len(chapters) :
                      /\ shaped[i].page_start = chapters[i].page_start
                      /\ shaped[i].page_end = chapters[i].page_end

C10_Witness ==
    /\ op = "extract_chapters_as_json"
    /\ pc = "done"
    /\ start_page = 2
    /\ Len(pdfPages) = 3
    /\ Len(shaped) = 2
    /\ shaped[2].page_start = 3

---------------------------------------------------------------------------
(* _segment_chapters: what one line does. *)

\* The step of the loop that handles the next line of the page.
LineStep == pc = "line" /\ lineNo' = lineNo + 1

NextLine == Lines(idx)[lineNo + 1]

\* The step after the loops.
EndOfInput == pc = "return" /\ pc' # "return"

\* C25: a line starts a new chapter, titled with that line and added to no
\* content, if and only if _is_chapter_heading(line) is true and the
\* current chapter's content is non-empty; otherwise the line is appended
\* to the current chapter's content and no chapter is created; at the end
\* of input the current chapter is emitted only if its content is
\* non-empty, so every emitted chapter has non-empty content.
C25_LineStartsChapterOrIsContent ==
    [][/\ LineStep =>
            IF _is_chapter_heading(NextLine) /\ current.content # <<>>
            THEN /\ Len(chapters') = Len(chapters) + 1
                 /\ SubSeq(chapters', 1, Len(chapters)) = chapters
                 /\ chapters'[Len(chapters')].title = current.title
                 /\ chapters'[Len(chapters')].content = current.content
                 /\ current'.title = NextLine
                 /\ current'.content = <<>>
            ELSE /\ chapters' = chapters
                 /\ current'.title = current.title
                 /\ current'.content = Append(current.content, NextLine)
       /\ EndOfInput =>
            chapters' = IF current.content # <<>>
                        THEN Append(chapters, current) ELSE chapters
       /\ \A i \in 1..Len(chapters') : chapters'[i].content # <<>>
      ]_vars

\* Two headings in a row: the second is the first line of the content of
\* the chapter the first one opened, and no chapter lies between them.
C25_Witness ==
    /\ op = "_segment_chapters"
    /\ pc = "done"
    /\ pages = << Chars("Body B.\n") \o BabTwo, BabOne \o Chars("\nBody A.") >>
    /\ Len(chapters) = 2
    /\ chapters[1].title = Preamble
    /\ chapters[2].title = BabTwo
    /\ chapters[2].content = << BabOne, Chars("Body A.") >>

\* A trailing chapter without content is dropped: the input ends with a
\* heading.
C25_TrailingDropped ==
    /\ op = "_segment_chapters"
    /\ pc = "done"
    /\ pages = << Chars("Body B.\n") \o BabTwo >>
    /\ Len(chapters) = 1
    /\ current.title = BabTwo
    /\ current.content = <<>>

---------------------------------------------------------------------------
(* The table-of-contents splitters: what they return. *)

TotalPages == Len(pdfPages)

TocDone == pc = "done" /\ op \in {"split_pdf_by_toc", "export_chapters_to_zip_from_toc"}

\* The start and the end of a chapter, whichever operation built it.
StartOf(ch) == IF op = "split_pdf_by_toc" THEN ch.start_page ELSE ch.page_start
EndOf(ch) == IF op = "split_pdf_by_toc" THEN ch.end_page ELSE ch.page_end
BodyOf(ch) == IF op = "split_pdf_by_toc" THEN ch.text ELSE ch.content

\* C2: every chapter of every boundary strategy has start <= end, also when
\* two TOC entries map to the same physical page.
C2_StartNotAfterEnd ==
    /\ Returned =>
           \A i \in 1..Len(chapters) : chapters[i].page_start <= chapters[i].page_end
    /\ op \in {"split_pdf_by_toc", "export_chapters_to_zip_from_toc"} =>
           \A i \in 1..Len(tocChapters) : StartOf(tocChapters[i]) <= EndOf(tocChapters[i])
    /\ (op = "split_pdf_into_chapters" /\ pc \in {"text", "done"}) =>
           \A i \in 1..Len(outChapters) :
               outChapters[i].start_page <= outChapters[i].end_page

\* C4 as the spec states it: the chapters of split_pdf_by_toc partition
\* [1, total_pages]: the first starts at 1, the last ends at total_pages,
\* and chapters[i].end_page + 1 = chapters[i+1].start_page.
C4_PartitionFromPageOne ==
    (pc = "done" /\ op = "split_pdf_by_toc") =>
        /\ tocChapters[1].start_page = 1
        /\ tocChapters[Len(tocChapters)].end_page = TotalPages
        /\ \A i \in 1..(Len(tocChapters) - 1) :
               tocChapters[i].end_page + 1 = tocChapters[i + 1].start_page

\* The physical pages of the in-range TOC entries.
RetainedPages ==
    {toc[i].printed_page + printed_to_pdf_offset : i \in 1..Len(toc)}
        \cap (1..TotalPages)

\* C4, amended: the chapters of split_pdf_by_toc partition the pages from
\* the first in-range TOC entry's page to total_pages: the first starts at
\* the smallest in-range physical page (the pages before it are in no
\* chapter), the last ends at total_pages, and chapters[i].end_page + 1 =
\* chapters[i+1].start_page.
C4_PartitionFromFirstEntry ==
    (pc = "done" /\ op = "split_pdf_by_toc") =>
        /\ tocChapters # <<>>
        /\ tocChapters[1].start_page \in RetainedPages
        /\ \A p \in RetainedPages : tocChapters[1].start_page <= p
        /\ tocChapters[Len(tocChapters)].end_page = TotalPages
        /\ \A i \in 1..(Len(tocChapters) - 1) :
               tocChapters[i].end_page + 1 = tocChapters[i + 1].start_page

C4_Witness ==
    /\ pc = "done"
    /\ op = "split_pdf_by_toc"
    /\ Len(tocChapters) = 3
    /\ tocChapters[1].start_page = 2
    /\ tocChapters[2].start_page = 4
    /\ TotalPages = 10

\* How often the pair (title, page) is among the starts, and among the TOC
\* entries once mapped.
TimesStarted(title, page) ==
    Cardinality({i \in 1..Len(starts) :
                    starts[i].title = title /\ starts[i].pdf_page = page})

TimesListed(title, page) ==
    Cardinality({i \in 1..Len(toc) :
                    /\ toc[i].title = title
                    /\ toc[i].printed_page + printed_to_pdf_offset = page})

PagesNamed ==
    {toc[i].printed_page + printed_to_pdf_offset : i \in 1..Len(toc)}
        \cup {starts[i].pdf_page : i \in 1..Len(starts)}

Mapped == pc \in {"chapters", "done"} \/ (pc = "raised" /\ toc # <<>>)

\* C5: in both TOC paths the retained starts are exactly the TOC entries
\* whose printed_page + printed_to_pdf_offset lies in [1, total_pages], each
\* at that page: an entry outside the range is left out, and none is moved
\* into it.
C5_RetainedNeverClamped ==
    (op \in {"split_pdf_by_toc", "export_chapters_to_zip_from_toc"} /\ Mapped) =>
        /\ \A i \in 1..Len(starts) :
               1 <= starts[i].pdf_page /\ starts[i].pdf_page <= TotalPages
        /\ \A title \in TocTitles :
               \A page \in PagesNamed :
                  TimesStarted(title, page) =
                      IF 1 <= page /\ page <= TotalPages
                      THEN TimesListed(title, page) ELSE 0
        /\ \A i \in 1..Len(tocChapters) : StartOf(tocChapters[i]) = starts[i].pdf_page

C5_Witness ==
    /\ pc = "done"
    /\ op = "export_chapters_to_zip_from_toc"
    /\ printed_to_pdf_offset = 0 - 1
    /\ Len(toc) = 3
    /\ Len(starts) = 1
    /\ \E i \in 1..Len(toc) : toc[i].printed_page = 1
    /\ \E i \in 1..Len(toc) : toc[i].printed_page + printed_to_pdf_offset > TotalPages

NoneInRange ==
    \A i \in 1..Len(all_entries) :
        ~(/\ 1 <= all_entries[i].printed_page + printed_to_pdf_offset
          /\ all_entries[i].printed_page + printed_to_pdf_offset <= TotalPages)

TocEnded == pc \in {"done", "raised"}

IsRuntimeError == SubSeq(raised, 1, 12) = "RuntimeError"

\* C6: when the TOC yields no entry, or every entry maps outside
\* [1, total_pages], both TOC paths end in a RuntimeError: neither returns
\* an empty chapter list nor writes an archive without a chapter.
C6_NoUsableTocRaises ==
    /\ (TocEnded /\ NoneInRange) =>
           /\ pc = "raised"
           /\ IsRuntimeError
           /\ tocChapters = <<>>
           /\ archive = "absent"
    /\ TocDone => tocChapters # <<>>
    /\ archive # "absent" => archive # <<>>

C6_Witness ==
    /\ pc = "raised"
    /\ op = "export_chapters_to_zip_from_toc"
    /\ Len(toc) = 2
    /\ NoneInRange
    /\ raised = "RuntimeError: TOC pages map outside the PDF range"

\* The texts of pages a..b joined by line feeds.
PagesJoined(a, b) == Join(<<NL>>, [k \in 1..(b - a + 1) |-> pdfPages[a + k - 1]])

\* The physical page of the i-th retained entry, and the page its chapter
\* runs through.
ChapterFirstPage(i) == starts[i].pdf_page

ChapterLastPage(i) ==
    IF i < Len(starts) THEN starts[i + 1].pdf_page - 1 ELSE TotalPages

TocExample ==
    /\ all_entries = << [title |-> Chars("Introduction"), printed_page |-> 1],
                        [title |-> Chars("Chapter One"), printed_page |-> 5] >>
    /\ printed_to_pdf_offset = 0
    /\ TotalPages = 10

\* C7: the body of TOC chapter i is the texts of the physical pages from
\* entry i's page through the page before entry i+1's (through the last page
\* for the last chapter), in page order; entries at printed pages 1 and 5
\* with offset 0 in a 10-page document give 2 chapters, pages 1-4 and 5-10.
C7_BodyIsPagesOfRange ==
    TocDone =>
        /\ Len(tocChapters) = Len(starts)
        /\ \A i \in 1..Len(tocChapters) :
               /\ StartOf(tocChapters[i]) = ChapterFirstPage(i)
               /\ EndOf(tocChapters[i]) = ChapterLastPage(i)
               /\ BodyOf(tocChapters[i]) =
                      PagesJoined(ChapterFirstPage(i), ChapterLastPage(i))
        /\ TocExample =>
               /\ Len(tocChapters) = 2
               /\ StartOf(tocChapters[1]) = 1 /\ EndOf(tocChapters[1]) = 4
               /\ StartOf(tocChapters[2]) = 5 /\ EndOf(tocChapters[2]) = 10
               /\ BodyOf(tocChapters[1]) = Chars("page 1\npage 2\npage 3\npage 4")

C7_Witness ==
    /\ TocDone
    /\ TocExample
    /\ op = "split_pdf_by_toc"
    /\ Len(tocChapters) = 2

---------------------------------------------------------------------------
(* The entry list of the TOC extraction. *)

\* extract_toc_entries_range or extract_toc_entries has returned.
TocExtracted ==
    /\ op \in {"split_pdf_by_toc", "export_chapters_to_zip_from_toc"}
    /\ pc # "toc"

NoRepeatedPair(list) ==
    \A i, j \in 1..Len(list) :
        (/\ list[i].title = list[j].title
         /\ list[i].printed_page = list[j].printed_page) => i = j

AscendingPrintedPages(list) ==
    \A i, j \in 1..Len(list) :
        i < j => list[i].printed_page <= list[j].printed_page

\* C23: the entry list returned by the TOC extraction, by
\* extract_toc_entries_range and by the single-page extract_toc_entries
\* alike, has no two entries with the same (title, printed_page) and is
\* sorted ascending by printed_page.
C23_TocDedupSorted ==
    TocExtracted =>
        /\ NoRepeatedPair(toc)
        /\ AscendingPrintedPages(toc)

\* The same for extract_toc_entries_range alone; each parsed pair is in
\* the list.
C23_RangeDedupSorted ==
    (TocExtracted /\ op = "split_pdf_by_toc") =>
        /\ NoRepeatedPair(toc)
        /\ AscendingPrintedPages(toc)
        /\ {toc[i] : i \in 1..Len(toc)} = {all_entries[i] : i \in 1..Len(all_entries)}

\* extract_toc_entries has returned a line read twice as two entries, and
\* an entry of page 5 before an entry of page 1.
C23_SinglePageRepeated ==
    /\ TocExtracted
    /\ op = "export_chapters_to_zip_from_toc"
    /\ Len(toc) = 2
    /\ toc[1] = toc[2]

C23_SinglePageUnsorted ==
    /\ TocExtracted
    /\ op = "export_chapters_to_zip_from_toc"
    /\ Len(toc) = 2
    /\ toc[1].printed_page = 5
    /\ toc[2].printed_page = 1

\* extract_toc_entries_range on the same lines.
C23_RangeReached ==
    /\ TocExtracted
    /\ op = "split_pdf_by_toc"
    /\ Len(all_entries) = 3
    /\ all_entries[1] = all_entries[3]
    /\ all_entries[1].printed_page = 5
    /\ all_entries[2].printed_page = 1
    /\ Len(toc) = 2

---------------------------------------------------------------------------
(* The outline splitter: what it returns. *)

\* The chapters the loop of _chapters_from_outline collects from the whole
\* outline.
RECURSIVE Collected(_)
Collected(dests) ==
    IF dests = <<>> THEN <<>>
    ELSE (IF Head(dests).raises THEN <<>>
          ELSE << [title |-> Head(dests).title, start_page |-> Head(dests).page] >>)
         \o Collected(Tail(dests))

\* _chapters_from_outline returned at least one chapter.
FromOutline ==
    /\ destNo > 0
    /\ OutlineSorted(Collected(flatten(outline)), NumPages) # <<>>

OutlineChapters ==
    /\ op = "split_pdf_into_chapters"
    /\ pc \in {"text", "done"}
    /\ FromOutline

\* The chapters whose half-open interval holds page q (from 0).
Holding(q) ==
    {i \in 1..Len(outChapters) :
        outChapters[i].start_page <= q /\ q < outChapters[i].end_page}

\* The non-empty texts of pages a..b-1 (from 0) joined by line feeds.
TextOfPages(a, b) ==
    Join(<<NL>>, SelectSeq([k \in 1..(b - a) |-> pdfPages[a + k]], LAMBDA t : t # <<>>))

OutlineExample ==
    /\ flatten(outline) = << Destination(Chars("A"), FALSE, 0),
                             Destination(Chars("B"), FALSE, 5) >>
    /\ NumPages = 8

Interval(ch) == <<ch.title, ch.start_page, ch.end_page>>

\* C9: outline chapters are half-open: each end_page is the next chapter's
\* start_page and the last is the page count; split_pdf_into_chapters gives
\* a chapter the text of pages start_page..end_page-1 only, so no page is in
\* two chapters and every page from the first start_page on is in one;
\* (A, 0) and (B, 5) in 8 pages give A = [0,5) and B = [5,8).
C9_HalfOpenIntervals ==
    OutlineChapters =>
        /\ outChapters # <<>>
        /\ \A i \in 1..(Len(outChapters) - 1) :
               outChapters[i].end_page = outChapters[i + 1].start_page
        /\ outChapters[Len(outChapters)].end_page = NumPages
        /\ \A q \in 0..(NumPages - 1) :
               Cardinality(Holding(q)) =
                   IF q >= outChapters[1].start_page THEN 1 ELSE 0
        /\ pc = "done" =>
               \A i \in 1..Len(outChapters) :
                   outChapters[i].text =
                       TextOfPages(outChapters[i].start_page, outChapters[i].end_page)
        /\ OutlineExample =>
               /\ Len(outChapters) = 2
               /\ Interval(outChapters[1]) = <<Chars("A"), 0, 5>>
               /\ Interval(outChapters[2]) = <<Chars("B"), 5, 8>>

C9_Witness ==
    /\ OutlineChapters
    /\ pc = "done"
    /\ OutlineExample
    /\ outChapters[1].text = Chars("page 1\npage 2\npage 4\npage 5")

---------------------------------------------------------------------------
(* The outline splitter: entries whose page number cannot be had. *)

\* get_destination_page_number gave a page index for the destination.
Resolvable(dest) == ~dest.raises /\ dest.page # NoPage

ResolvableEntries ==
    {k \in 1..Len(flatten(outline)) : Resolvable(flatten(outline)[k])}

\* The step in which _chapters_from_outline returns after its loop.
OutlineReturns ==
    /\ op = "split_pdf_into_chapters"
    /\ pc = "resolve"
    /\ pc' # "resolve"

\* The returned chapters are the resolvable entries of the outline, one
\* chapter each.
ResolvableReturned(list) ==
    /\ Len(list) = Cardinality(ResolvableEntries)
    /\ \A k \in ResolvableEntries :
           \E i \in 1..Len(list) :
               /\ list[i].title = flatten(outline)[k].title
               /\ list[i].start_page = flatten(outline)[k].page

\* C26: _chapters_from_outline flattens an outline of any depth, skips an
\* entry whose page number cannot be resolved and still returns every
\* resolvable entry: one unresolvable entry never aborts the extraction or
\* empties the result.
C26_UnresolvableSkipped ==
    [][OutlineReturns => ResolvableReturned(outChapters')]_vars

\* The same for outlines in which an unresolvable entry is one for which
\* get_destination_page_number raises.
C26_RaisingSkipped ==
    [][(OutlineReturns /\ \A k \in 1..Len(flatten(outline)) :
                             flatten(outline)[k].page # NoPage)
          => ResolvableReturned(outChapters')]_vars

\* An outline with one entry on page 0 and one entry without a page: the
\* function has returned no chapter.
C26_ResultEmptied ==
    /\ op = "split_pdf_into_chapters"
    /\ pc = "heuristics"
    /\ destNo = 2
    /\ Len(flatten(outline)) = 2
    /\ Resolvable(flatten(outline)[1])
    /\ flatten(outline)[2].page = NoPage
    /\ ~flatten(outline)[2].raises
    /\ outChapters = <<>>

\* A nested outline in which the one entry that raises is passed over and
\* the other is returned.
C26_RaisingSkippedReached ==
    /\ op = "split_pdf_into_chapters"
    /\ pc = "text"
    /\ Len(outline) = 1
    /\ outline[1].kind = "list"
    /\ Len(flatten(outline)) = 2
    /\ flatten(outline)[1].raises
    /\ Resolvable(flatten(outline)[2])
    /\ Len(outChapters) = 1
    /\ outChapters[1].title = flatten(outline)[2].title

---------------------------------------------------------------------------
(* _is_chapter_heading on lines of every kind. *)

MaxArabicRun == 18
MaxFiller == 23

RECURSIVE Repeat(_, _)
Repeat(c, n) == IF n <= 0 THEN <<>> ELSE <<c>> \o Repeat(c, n - 1)

\* How a line may begin: with nothing, with the word of the second pattern,
\* with a marker word and its number, with the number of a list item.
LinePrefixes == { <<>>, FASL \o <<" ">>, BabOne \o <<" ">>, Chars("1. ") }

\* How a line may end: with nothing, a full stop of either script, a
\* question mark of either script, an exclamation mark, an Arabic comma.
LineEndings ==
    { <<>>, <<".">>, <<"ARABIC_FULL_STOP">>, <<"?">>, <<"ARABIC_QUESTION_MARK">>,
      <<"!">>, <<"ARABIC_COMMA">> }

\* The lines given to _is_chapter_heading: a prefix, a run of Arabic
\* letters, a space or none, a run of Latin letters, an ending.
HeadingLines ==
    { p \o Repeat("ALEF", a) \o sp \o Repeat("x", b) \o e :
        p \in LinePrefixes, a \in 0..MaxArabicRun, sp \in { <<>>, <<" ">> },
        b \in 0..MaxFiller, e \in LineEndings }

SplittersIdle ==
    /\ pdfPages = <<>>
    /\ SegIdle
    /\ TocIdle
    /\ OutlineIdle

HeadingInit ==
    /\ op = "_is_chapter_heading"
    /\ pc = "call"
    /\ heading_line \in HeadingLines
    /\ is_heading = "none"
    /\ SplittersIdle
    /\ NamesIdle
    /\ DocxIdle
    /\ TranslateIdle
    /\ ParallelIdle
    /\ ApiIdle

\* _is_chapter_heading(line)
IsChapterHeading ==
    /\ op = "_is_chapter_heading"
    /\ pc = "call"
    /\ pc' = "done"
    /\ is_heading' = IF _is_chapter_heading(heading_line) THEN "True" ELSE "False"
    /\ UNCHANGED <<op, pdfPages, segVars, tocVars, outVars, parVars, apiVars, heading_line, nameVars, docxVars, trVars>>

HeadingNext == IsChapterHeading

SpecHeading == HeadingInit /\ [][HeadingNext]_vars

\* What ends a sentence: the full stops, the question marks and the
\* exclamation mark.
SentenceTerminal == {".", "ARABIC_FULL_STOP", "?", "ARABIC_QUESTION_MARK", "!"}

HeadingReturned == op = "_is_chapter_heading" /\ pc = "done"

\* C11: _is_chapter_heading returns false for the empty line; for a line
\* that matches none of the structural patterns it returns true exactly
\* when the line has at most 40 characters, holds a space, holds no
\* sentence-terminal punctuation and more than 0.4 of its characters are
\* letters of the script; and such a line holding sentence punctuation is
\* never a heading.
C11_HeadingRule ==
    HeadingReturned =>
        /\ heading_line = <<>> => is_heading = "False"
        /\ (heading_line # <<>> /\ ~MatchesChapterPattern(heading_line)) =>
              (is_heading = "True" <=>
                  /\ Len(heading_line) <= HeadingMaxLen
                  /\ Count(heading_line, {" "}) > 0
                  /\ Count(heading_line, SentenceTerminal) = 0
                  /\ 5 * Count(heading_line, ArabicLetters) > 2 * Len(heading_line))
        /\ (~MatchesChapterPattern(heading_line)
              /\ Count(heading_line, SentenceTerminal) > 0) => is_heading = "False"

\* C11, what the code does: the empty line is no heading; a line matching no
\* pattern is a heading exactly when it has at most 40 characters, a space,
\* neither "." nor the Arabic full stop, and a ratio above 0.4.
C11_FullStopsOnly ==
    HeadingReturned =>
        /\ heading_line = <<>> => is_heading = "False"
        /\ (heading_line # <<>> /\ ~MatchesChapterPattern(heading_line)) =>
              (is_heading = "True" <=>
                  /\ Len(heading_line) <= HeadingMaxLen
                  /\ Count(heading_line, {" "}) > 0
                  /\ Count(heading_line, {".", "ARABIC_FULL_STOP"}) = 0
                  /\ 5 * Count(heading_line, ArabicLetters) > 2 * Len(heading_line))

\* A short Arabic question, matching no pattern, is returned as a heading.
C11_QuestionIsHeading ==
    /\ HeadingReturned
    /\ ~MatchesChapterPattern(heading_line)
    /\ Count(heading_line, {"ARABIC_QUESTION_MARK"}) > 0
    /\ is_heading = "True"

\* Lines of 40 and of 41 characters, and a ratio of exactly 0.4, are reached.
C11_EdgesReached ==
    /\ HeadingReturned
    /\ ~MatchesChapterPattern(heading_line)
    /\ Len(heading_line) = HeadingMaxLen
    /\ 5 * Count(heading_line, ArabicLetters) = 2 * Len(heading_line)
    /\ Count(heading_line, {" "}) > 0
    /\ Count(heading_line, SentenceTerminal) = 0
    /\ is_heading = "False"

---------------------------------------------------------------------------
(* The naming loop of export_chapters_to_zip and of
   export_chapters_to_zip_from_toc. *)

MaxTitles == 3

\* Titles of chapters: some that sanitize to one name, some that differ in
\* case only, one that is the suffixed form of another, some that sanitize
\* to nothing, one that is the fallback of the second chapter.
TitleSamples ==
    { <<>>, Chars("a"), Chars("A"), Chars("a?"), Chars("a_1"), Chars("a b"),
      Chars("?"), Chars("chapter_2") }

\* A set of names that compares them as they are.
UsedKeyExact(name) == name

\* used_names.add(name.lower())
UsedKey(name) == Lower(name)

NamesInit ==
    /\ op = "export_chapters_to_zip"
    /\ pc = "names"
    /\ batch_titles \in SeqsUpTo(TitleSamples, MaxTitles)
    /\ batch_used = {}
    /\ batch_names = <<>>
    /\ SplittersIdle
    /\ HeadingIdle
    /\ DocxIdle
    /\ TranslateIdle
    /\ ParallelIdle
    /\ ApiIdle

\* The base name of chapter i: the sanitized title, or the sanitized
\* fallback when the title is falsy.
BaseName(i) ==
    _sanitize_filename(
        IF batch_titles[i] # <<>> THEN batch_titles[i] ELSE ChapterFallback(i),
        ChapterFallback(i))

\* One round of the loop over the chapters: chapter i gets its name.
NameChapter ==
    /\ op = "export_chapters_to_zip"
    /\ pc = "names"
    /\ Len(batch_names) < Len(batch_titles)
    /\ LET i == Len(batch_names) + 1
           name == UniqueName(BaseName(i), 0, batch_used)
       IN  /\ batch_used' = batch_used \cup {UsedKey(name)}
           /\ batch_names' = Append(batch_names, name)
    /\ UNCHANGED <<op, pc, pdfPages, segVars, tocVars, outVars, parVars, apiVars, headVars, docxVars, trVars, batch_titles>>

\* The loop is over.
NamesDone ==
    /\ op = "export_chapters_to_zip"
    /\ pc = "names"
    /\ Len(batch_names) = Len(batch_titles)
    /\ pc' = "done"
    /\ UNCHANGED <<op, pdfPages, segVars, tocVars, outVars, parVars, apiVars, headVars, nameVars, docxVars, trVars>>

NamesNext ==
    \/ NameChapter
    \/ NamesDone

SpecNames == NamesInit /\ [][NamesNext]_vars

\* base, base_1, base_2, ...
Suffixed(base, k) == IF k = 0 THEN base ELSE base \o <<"_">> \o Decimal(k)

\* C12: within one export batch no two chapters get the same name under
\* case-insensitive comparison, and a name is its base with the first
\* suffix _1, _2, ... whose earlier forms are all taken.
C12_NamesUnique ==
    op = "export_chapters_to_zip" =>
        /\ \A i, j \in 1..Len(batch_names) :
              i # j => Lower(batch_names[i]) # Lower(batch_names[j])
        /\ \A i \in 1..Len(batch_names) :
              \E k \in 0..MaxTitles :
                  /\ batch_names[i] = Suffixed(BaseName(i), k)
                  /\ \A m \in 0..(k - 1) :
                        \E j \in 1..(i - 1) :
                            Lower(batch_names[j]) = Lower(Suffixed(BaseName(i), m))

\* Three titles that sanitize to one name, and "a", "a", "a_1", have been
\* named.
C12_Witness ==
    /\ op = "export_chapters_to_zip"
    /\ pc = "done"
    /\ \/ /\ batch_titles = <<Chars("a"), Chars("A"), Chars("a?")>>
          /\ batch_names = <<Chars("a"), Chars("A_1"), Chars("a_2")>>
       \/ /\ batch_titles = <<Chars("a"), Chars("a"), Chars("a_1")>>
          /\ batch_names = <<Chars("a"), Chars("a_1"), Chars("a_1_1")>>

---------------------------------------------------------------------------
(* The writers of DOCX files: chapter_to_word, chapters_json_to_word,
   chapters_texts_to_docx_zip, chapter_text_to_docx_bytes and the loop of
   pdf_to_word_chapters over its chapters.  A control character is written
   by its name: "NUL" is U+0000, "BEL" U+0007, "VT" U+000B, "\f" U+000C,
   "ESC" U+001B, "DEL" U+007F, "CSI" U+009B. *)

MaxTitleLen == 2
MaxTextLen == 4

\* [\x00-\x08\x0B\x0C\x0E-\x1F\x7F-\x9F], as far as the alphabet goes.
InvalidXmlChars == {"NUL", "BEL", "VT", "\f", "ESC", "DEL", "CSI"}

\* An _xml_safe that passes its argument on.
XmlUnsafe(text) == text

_xml_safe(text) ==
    IF text = <<>> THEN <<>>
    ELSE SelectSeq(text, LAMBDA c : c \notin InvalidXmlChars)

\* re.split(r"\n{2,}", s): what lies between the runs of two or more line
\* feeds, the empty string before a run at the start and after a run at
\* the end included.  opens holds where each run starts (and the end of s),
\* closes where each run ends (and the start of s).
SplitBlankRuns(s) ==
    LET n == Len(s)
        inRun(i) == /\ 1 <= i
                    /\ i <= n
                    /\ s[i] = NL
                    /\ \/ i > 1 /\ s[i - 1] = NL
                       \/ i < n /\ s[i + 1] = NL
        opens == SelectSeq([i \in 1..(n + 1) |-> i],
                           LAMBDA i : i = n + 1 \/ (inRun(i) /\ ~inRun(i - 1)))
        closes == SelectSeq([i \in 1..(n + 1) |-> i - 1],
                            LAMBDA i : i = 0 \/ (inRun(i) /\ ~inRun(i + 1)))
    IN  [k \in 1..Len(opens) |-> SubSeq(s, closes[k] + 1, opens[k] - 1)]

\* "(بدون عنوان)"
Untitled ==
    <<"(", "BEH", "DAL", "WAW", "NOON", " ", "AIN", "NOON", "WAW", "ALEF", "NOON", ")">>

\* x or y, on strs
Or(x, y) == IF x # <<>> THEN x ELSE y

\* The paragraphs of the four writers that split on runs of line feeds:
\* stripped, the empty ones passed over.
StrippedParagraphs(content) ==
    LET blocks == SplitBlankRuns(content)
    IN  SelectSeq([i \in 1..Len(blocks) |-> Strip(blocks[i])], LAMBDA b : b # <<>>)

\* The blocks of those four writers, the heading first: each is shaped when
\* the environment asks for it and then goes through _xml_safe.
SafeBlocks(heading, content, env) ==
    <<[kind |-> "heading", text |-> _xml_safe(heading)]>>
    \o [i \in 1..Len(StrippedParagraphs(content)) |->
            [kind |-> "paragraph",
             text |-> _xml_safe(ShapeForDocx(StrippedParagraphs(content)[i],
                                             env.shape, env.reshaper))]]

DocxWriters ==
    {"chapter_to_word", "chapters_json_to_word", "chapters_texts_to_docx_zip",
     "chapter_text_to_docx_bytes", "pdf_to_word_chapters"}

\* Titles and texts of chapters, control characters among them.
DocxTitles ==
    SeqsUpTo({"T", "BEL"}, MaxTitleLen)
        \cup { <<"NUL", "T">>, <<"T", "CSI">>, <<"DEL">>, <<"T", "\t">>,
               <<"ALEF", "ESC", "BEH">> }

DocxTexts ==
    SeqsUpTo({"a", NL, "BEL"}, MaxTextLen)
        \cup { <<"a", "\f", NL, NL, "b", "VT">>, <<"a", "\r", NL, "\t", "b">>,
               <<"ALEF", "CSI", "BEH">>, <<"a", "DEL", "NUL">> }

DocxInit ==
    /\ op \in DocxWriters
    /\ pc = "write"
    /\ docx_chapter \in [title : DocxTitles, text : DocxTexts]
    /\ docx_env \in [shape : BOOLEAN, reshaper : BOOLEAN]
    /\ docx_blocks = <<>>
    /\ SplittersIdle
    /\ HeadingIdle
    /\ NamesIdle
    /\ TranslateIdle
    /\ ParallelIdle
    /\ ApiIdle

DocxWritten(blocks) ==
    /\ pc = "write"
    /\ docx_blocks' = blocks
    /\ pc' = "done"
    /\ UNCHANGED <<op, pdfPages, segVars, tocVars, outVars, parVars, apiVars, headVars, nameVars, trVars,
                   docx_chapter, docx_env>>

\* chapter_to_word(chapter, output_docx)
ChapterToWord ==
    /\ op = "chapter_to_word"
    /\ DocxWritten(SafeBlocks(
           Or(ShapeForDocx(docx_chapter.title, docx_env.shape, docx_env.reshaper),
              Untitled),
           docx_chapter.text, docx_env))

\* chapters_json_to_word(chapters, output_docx), for one chapter
ChaptersJsonToWord ==
    /\ op = "chapters_json_to_word"
    /\ DocxWritten(SafeBlocks(
           Or(ShapeForDocx(docx_chapter.title, docx_env.shape, docx_env.reshaper),
              Untitled),
           Strip(docx_chapter.text), docx_env))

\* chapters_texts_to_docx_zip(chapters), for the first chapter
ChaptersTextsToDocxZip ==
    /\ op = "chapters_texts_to_docx_zip"
    /\ DocxWritten(SafeBlocks(
           ShapeForDocx(Or(docx_chapter.title, Chars("Chapter_1")),
                        docx_env.shape, docx_env.reshaper),
           docx_chapter.text, docx_env))

\* chapter_text_to_docx_bytes(title, text)
ChapterTextToDocxBytes ==
    /\ op = "chapter_text_to_docx_bytes"
    /\ DocxWritten(SafeBlocks(
           ShapeForDocx(Or(docx_chapter.title, Chars("Chapter")),
                        docx_env.shape, docx_env.reshaper),
           docx_chapter.text, docx_env))

\* pdf_to_word_chapters: the round of the loop over the chapters for a
\* Chapter with this title and these lines.
PdfToWordChapter ==
    /\ op = "pdf_to_word_chapters"
    /\ DocxWritten(DocxBlocks(
           [title |-> docx_chapter.title, content |-> SplitNL(docx_chapter.text)],
           docx_env.shape, docx_env.reshaper))

DocxNext ==
    \/ ChapterToWord
    \/ ChaptersJsonToWord
    \/ ChaptersTextsToDocxZip
    \/ ChapterTextToDocxBytes
    \/ PdfToWordChapter

SpecDocx == DocxInit /\ [][DocxNext]_vars

DocxDone == op \in DocxWriters /\ pc = "done"

\* The title a writer starts from when nothing is shaped.
PlainHeading ==
    CASE op \in {"chapter_to_word", "chapters_json_to_word"} ->
             Or(docx_chapter.title, Untitled)
      [] op = "chapters_texts_to_docx_zip" -> Or(docx_chapter.title, Chars("Chapter_1"))
      [] op = "chapter_text_to_docx_bytes" -> Or(docx_chapter.title, Chars("Chapter"))
      [] OTHER -> docx_chapter.title

Kept(text) == SelectSeq(text, LAMBDA c : c \notin InvalidXmlChars)

\* C13: every heading and paragraph handed to the DOCX writer by any export
\* path holds no C0/C1 control character other than tab, line feed and
\* carriage return, and the other characters of the title are kept in order.
C13_NoControlCharacter ==
    DocxDone =>
        /\ \A i \in 1..Len(docx_blocks) :
              Count(docx_blocks[i].text, InvalidXmlChars) = 0
        /\ ~docx_env.shape => docx_blocks[1].text = Kept(PlainHeading)

\* C13, for the four writers that call _xml_safe.
C13_SafeWriters ==
    (DocxDone /\ op # "pdf_to_word_chapters") =>
        /\ \A i \in 1..Len(docx_blocks) :
              Count(docx_blocks[i].text, InvalidXmlChars) = 0
        /\ ~docx_env.shape => docx_blocks[1].text = Kept(PlainHeading)

\* chapter_to_word has written a heading and a paragraph that lost their
\* control characters.
C13_SafeWritersReached ==
    /\ DocxDone
    /\ op = "chapter_to_word"
    /\ docx_chapter = [title |-> <<"T", "BEL">>, text |-> <<"a", "BEL", NL, NL>>]
    /\ docx_blocks = <<[kind |-> "heading", text |-> <<"T">>],
                       [kind |-> "paragraph", text |-> <<"a">>]>>

---------------------------------------------------------------------------
(* translate_text against a translation service that fails on every input
   holding one sentence.  The service puts Latin letters in upper case and
   leaves the rest of its input as it is. *)

MaxSentences == 3

PieceLimit == 1800
Retries == 3

\* [\.\!\?؟]
SentenceEnds == {".", "!", "?", "ARABIC_QUESTION_MARK"}

UpperChar(c) ==
    IF \E i \in 1..Len(LowerCase) : LowerCase[i] = c
    THEN UpperCase[CHOOSE i \in 1..Len(LowerCase) : LowerCase[i] = c]
    ELSE c

\* translator.translate(chunk), when it succeeds
Translated(chunk) == [i \in 1..Len(chunk) |-> UpperChar(chunk[i])]

\* Whether translator.translate(chunk) raises, on each attempt alike.
ServiceFails(chunk, bad) == bad # <<>> /\ Contains(chunk, bad)

None == [ok |-> FALSE, text |-> <<>>]

\* _try_translate(chunk): the first attempt of Retries that succeeds.
_try_translate(chunk, bad) ==
    IF \E attempt \in 1..Retries : ~ServiceFails(chunk, bad)
    THEN [ok |-> TRUE, text |-> Translated(chunk)]
    ELSE None

\* size when the paragraphs a..b are in buf
SizeOf(paras, a, b) == Len(Concat(SubSeq(paras, a, b)))

\* The last paragraph of the piece that paragraph a opens: a paragraph goes
\* into a non-empty buf unless size + len(para) > PieceLimit.
LastOfPiece(paras, a) ==
    LET fits == {b \in a..Len(paras) : b = a \/ SizeOf(paras, a, b) <= PieceLimit}
    IN  CHOOSE b \in fits : \A c \in fits : c <= b

\* The loop over the paragraphs that fills pieces, from paragraph i on with
\* buf empty: a piece is closed when the next paragraph would take it over
\* PieceLimit characters, and the last buf is a piece.  One level for each
\* piece.
RECURSIVE BuildPieces(_, _, _)
BuildPieces(paras, i, pieces) ==
    IF i > Len(paras) THEN pieces
    ELSE LET last == LastOfPiece(paras, i)
         IN  BuildPieces(paras, last + 1,
                         Append(pieces, Join(<<NL, NL>>, SubSeq(paras, i, last))))

\* re.split(r"(?<=[\.\!\?؟])\s+|\n+", block)
RECURSIVE SplitSentences(_)
SplitSentences(block) ==
    LET afterEnd(i) == i > 1 /\ block[i - 1] \in SentenceEnds /\ block[i] \in WhiteSpace
        at == SelectSeq([i \in 1..Len(block) |-> i],
                        LAMBDA i : afterEnd(i) \/ block[i] = NL)
    IN  IF at = <<>> THEN <<block>>
        ELSE LET i == at[1]
                 j == IF afterEnd(i) THEN SkipWhile(block, i, WhiteSpace)
                      ELSE SkipWhile(block, i, {NL})
             IN  <<SubSeq(block, 1, i - 1)>>
                 \o SplitSentences(SubSeq(block, j, Len(block)))

\* A fallback that drops the sentence that could not be translated.
DropOriginal(sentence) == <<>>

\* sent_out.append(s), for a sentence that could not be translated
KeepOriginal(sentence) == sentence

\* The fallback for a block that could not be translated: its sentences,
\* each translated or kept, joined by spaces.
FallbackBlock(block, bad) ==
    LET parts == SplitSentences(block)
        sentences == SelectSeq([i \in 1..Len(parts) |-> Strip(parts[i])],
                               LAMBDA x : x # <<>>)
        sent_out == [i \in 1..Len(sentences) |->
                        LET translated == _try_translate(sentences[i], bad)
                        IN  IF translated.ok THEN translated.text
                            ELSE KeepOriginal(sentences[i])]
    IN  Join(<<" ">>, sent_out)

\* What one round of the loop over the pieces does to results.
BlockResult(block, bad, results) ==
    LET out == _try_translate(block, bad)
    IN  IF Strip(block) = <<>> THEN results
        ELSE IF out.ok THEN Append(results, out.text)
        ELSE Append(results, FallbackBlock(block, bad))

RECURSIVE BlockResults(_, _, _, _)
BlockResults(pieces, i, bad, results) ==
    IF i > Len(pieces) THEN results
    ELSE BlockResults(pieces, i + 1, bad, BlockResult(pieces[i], bad, results))

\* translate_text(text, target_lang), against a service that fails on bad
translate_text(text, bad) ==
    IF text = <<>> THEN <<>>
    ELSE Strip(Join(<<NL, NL>>,
             BlockResults(BuildPieces(SplitBlankRuns(text), 1, <<>>),
                          1, bad, <<>>)))

\* The sentences of the texts, and what separates two of them.
SentenceSamples ==
    { Chars("a."), Chars("b!"), Chars("c?"), <<"d", "ARABIC_QUESTION_MARK">> }

Separators == { <<" ">>, <<NL>>, <<NL, NL>> }

RECURSIVE TextsOf(_)
TextsOf(n) ==
    IF n = 1 THEN SentenceSamples
    ELSE { t \o sep \o x : t \in TextsOf(n - 1), sep \in Separators,
                           x \in SentenceSamples }

\* A paragraph of more than PieceLimit characters, which closes a piece.
LongParagraph == [i \in 1..PieceLimit |-> "e"] \o <<".">>

\* The ceiling the comment above the loop names: "~1800-2000 chars".
BlockCeiling == 2000

\* One paragraph of more than BlockCeiling characters.
HugeParagraph == [i \in 1..(BlockCeiling + 1) |-> "e"]

\* 200 paragraphs of 9 characters: PieceLimit characters in all, and two
\* more for every blank line between them.
ManyParagraphs == Join(<<NL, NL>>, [i \in 1..200 |-> Chars("eeeeeeeee")])

TranslateTexts ==
    { <<>>, <<" ">>, LongParagraph \o Chars("\n\nb! c?"), HugeParagraph,
      ManyParagraphs }
        \cup UNION { TextsOf(n) : n \in 1..MaxSentences }

TranslateInit ==
    /\ op = "translate_text"
    /\ pc = "call"
    /\ tr_text \in TranslateTexts
    /\ tr_bad \in SentenceSamples \cup { <<>> }
    /\ tr_pieces = <<>>
    /\ tr_blockNo = 0
    /\ tr_results = <<>>
    /\ tr_out = <<>>
    /\ RetryIdle
    /\ SplittersIdle
    /\ HeadingIdle
    /\ NamesIdle
    /\ DocxIdle
    /\ ParallelIdle
    /\ ApiIdle

\* if not text: return ""
TranslateEmpty ==
    /\ op = "translate_text"
    /\ pc = "call"
    /\ tr_text = <<>>
    /\ pc' = "done"
    /\ UNCHANGED <<op, pdfPages, segVars, tocVars, outVars, parVars, apiVars, headVars, nameVars, docxVars,
                   trVars>>

\* The text is cut into pieces.
TranslateSplit ==
    /\ op = "translate_text"
    /\ pc = "call"
    /\ tr_text # <<>>
    /\ tr_pieces' = BuildPieces(SplitBlankRuns(tr_text), 1, <<>>)
    /\ pc' = "blocks"
    /\ UNCHANGED <<op, pdfPages, segVars, tocVars, outVars, parVars, apiVars, headVars, nameVars, docxVars,
                   tr_text, tr_bad, tr_blockNo, tr_results, tr_out, rtVars>>

\* One round of the loop over the pieces: a blank block is passed over, a
\* block the service translates is taken whole, any other goes sentence by
\* sentence.
TranslateBlock ==
    /\ op = "translate_text"
    /\ pc = "blocks"
    /\ tr_blockNo < Len(tr_pieces)
    /\ tr_blockNo' = tr_blockNo + 1
    /\ tr_results' = BlockResult(tr_pieces[tr_blockNo + 1], tr_bad, tr_results)
    /\ UNCHANGED <<op, pc, pdfPages, segVars, tocVars, outVars, parVars, apiVars, headVars, nameVars,
                   docxVars, tr_text, tr_bad, tr_pieces, tr_out, rtVars>>

\* return "\n\n".join(results).strip()
TranslateReturn ==
    /\ op = "translate_text"
    /\ pc = "blocks"
    /\ tr_blockNo = Len(tr_pieces)
    /\ tr_out' = Strip(Join(<<NL, NL>>, tr_results))
    /\ pc' = "done"
    /\ UNCHANGED <<op, pdfPages, segVars, tocVars, outVars, parVars, apiVars, headVars, nameVars, docxVars,
                   tr_text, tr_bad, tr_pieces, tr_blockNo, tr_results, rtVars>>

TranslateNext ==
    \/ TranslateEmpty
    \/ TranslateSplit
    \/ TranslateBlock
    \/ TranslateReturn

SpecTranslate == TranslateInit /\ [][TranslateNext]_vars

\* The sentences of a text whose sentences hold no white space: what the
\* white space of the text separates.
Words(s) ==
    LET n == Len(s)
        inWord(i) == 1 <= i /\ i <= n /\ s[i] \notin WhiteSpace
        first == SelectSeq([i \in 1..n |-> i], LAMBDA i : inWord(i) /\ ~inWord(i - 1))
        last == SelectSeq([i \in 1..n |-> i], LAMBDA i : inWord(i) /\ ~inWord(i + 1))
    IN  [k \in 1..Len(first) |-> SubSeq(s, first[k], last[k])]

TranslateDone == op = "translate_text" /\ pc = "done"

\* The sentences of the text, each translated unless it is the one the
\* service fails on.
AllButOneTranslated ==
    [i \in 1..Len(Words(tr_text)) |->
        IF Words(tr_text)[i] = tr_bad THEN tr_bad ELSE Translated(Words(tr_text)[i])]

\* C14: when the service fails on exactly the inputs that hold one sentence
\* of a chapter of several sentences, translate_text returns that sentence
\* verbatim and every other sentence translated, in the original order and
\* none dropped.
C14_FailedSentenceVerbatim ==
    (TranslateDone /\ tr_bad # <<>>) => Words(tr_out) = AllButOneTranslated

\* A chapter of three sentences whose second the service fails on has been
\* translated.
C14_Witness ==
    /\ TranslateDone
    /\ tr_text = Chars("a. b! c?")
    /\ tr_bad = Chars("b!")
    /\ tr_out = Chars("A. b! C?")

\* The steps of translate_text give what the function gives.
TranslateAsFunction == TranslateDone => tr_out = translate_text(tr_text, tr_bad)

\* The pieces have been built.
PiecesBuilt == op = "translate_text" /\ pc \in {"blocks", "done"} /\ tr_text # <<>>

\* The pieces are runs of whole paragraphs: joined again by blank lines they
\* give the paragraphs of the text, in order.
WholeParagraphs ==
    Concat([i \in 1..Len(tr_pieces) |-> SplitBlankRuns(tr_pieces[i])])
        = SplitBlankRuns(tr_text)

\* C27: every block translate_text submits at block level is at most 2000
\* characters long and consists of whole paragraphs, for every text: one
\* paragraph longer than the ceiling, and many short paragraphs with their
\* blank lines, included.
C27_BlocksWithinCeiling ==
    PiecesBuilt =>
        /\ \A i \in 1..Len(tr_pieces) : Len(tr_pieces[i]) <= BlockCeiling
        /\ WholeParagraphs

\* The pieces are runs of whole paragraphs, and a piece holds more than
\* PieceLimit characters of paragraphs only when it is one paragraph.
C27_WholeParagraphs ==
    PiecesBuilt =>
        /\ WholeParagraphs
        /\ \A i \in 1..Len(tr_pieces) :
               LET paras == SplitBlankRuns(tr_pieces[i])
               IN  Len(Concat(paras)) > PieceLimit => Len(paras) = 1

\* A block of one paragraph of 2001 characters, and a block of 200
\* paragraphs that is 2198 characters long.
C27_HugeBlock ==
    /\ PiecesBuilt
    /\ tr_text = HugeParagraph
    /\ Len(tr_pieces) = 1
    /\ Len(tr_pieces[1]) = BlockCeiling + 1

C27_SeparatorsCount ==
    /\ PiecesBuilt
    /\ tr_text = ManyParagraphs
    /\ Len(tr_pieces) = 1
    /\ Len(tr_pieces[1]) = 2198

---------------------------------------------------------------------------
(* translate_text call by call, against a service that answers or raises
   as it likes on every call: the attempts of _try_translate, the sleep
   after each failure, and the sentence-level fallback.  The service is
   taken to answer with a string or to raise. *)

\* What translate_text is run on: no text, a blank one, one sentence, two
\* sentences in one block, and two blocks, the second of two sentences.
RetryTexts ==
    { <<>>, <<" ">>, Chars("a."), Chars("a. b!"),
      LongParagraph \o Chars("\n\nb! c?") }

\* A loop of one round more.
OneMore(retries) == 0..retries

\* for attempt in range(retries)
range(retries) == 0..(retries - 1)

\* delay = 0.8, in tenths of a second
FirstDelay == 8

\* A delay that stays what it was.
ConstantDelay(delay) == delay

\* delay *= 2
BackOff(delay) == delay * 2

\* The sentences the fallback goes over: the parts of the block, stripped,
\* the empty ones passed over.
SentencesOf(block) ==
    LET parts == SplitSentences(block)
    IN  SelectSeq([i \in 1..Len(parts) |-> Strip(parts[i])], LAMBDA x : x # <<>>)

RetryInit ==
    /\ op = "translate_text"
    /\ pc = "call"
    /\ tr_text \in RetryTexts
    /\ tr_bad = <<>>
    /\ tr_pieces = <<>>
    /\ tr_blockNo = 0
    /\ tr_results = <<>>
    /\ tr_out = <<>>
    /\ RetryIdle
    /\ SplittersIdle
    /\ HeadingIdle
    /\ NamesIdle
    /\ DocxIdle
    /\ ParallelIdle
    /\ ApiIdle

\* The chunk _try_translate has been called on.
Chunk ==
    IF rt_sentNo = 0 THEN tr_pieces[tr_blockNo] ELSE rt_sentences[rt_sentNo]

\* if not block.strip(): continue
BlockBlank ==
    /\ op = "translate_text"
    /\ pc = "blocks"
    /\ tr_blockNo < Len(tr_pieces)
    /\ Strip(tr_pieces[tr_blockNo + 1]) = <<>>
    /\ tr_blockNo' = tr_blockNo + 1
    /\ UNCHANGED <<op, pc, pdfPages, segVars, tocVars, outVars, parVars, apiVars,
                   headVars, nameVars, docxVars, tr_text, tr_bad, tr_pieces,
                   tr_results, tr_out, rtVars>>

\* out = _try_translate(block), as far as delay = 0.8
BlockBegin ==
    /\ op = "translate_text"
    /\ pc = "blocks"
    /\ tr_blockNo < Len(tr_pieces)
    /\ Strip(tr_pieces[tr_blockNo + 1]) # <<>>
    /\ tr_blockNo' = tr_blockNo + 1
    /\ rt_sentNo' = 0
    /\ rt_attempt' = 0
    /\ rt_delay' = FirstDelay
    /\ pc' = "try"
    /\ UNCHANGED <<op, pdfPages, segVars, tocVars, outVars, parVars, apiVars,
                   headVars, nameVars, docxVars, tr_text, tr_bad, tr_pieces,
                   tr_results, tr_out, rt_sentences, rt_sent_out, rt_calls>>

\* The record of a call: the block and the sentence (0 for the block
\* itself) it was made for, whether it answered, and the delay slept for
\* after it, jitter apart.
Call(ok, slept) ==
    [block |-> tr_blockNo, sentence |-> rt_sentNo, ok |-> ok, slept |-> slept]

\* return translator.translate(chunk), when the service answers: a block
\* goes to results, a sentence to sent_out.
AttemptAnswered ==
    /\ op = "translate_text"
    /\ pc = "try"
    /\ rt_attempt \in range(Retries)
    /\ rt_calls' = Append(rt_calls, Call(TRUE, 0))
    /\ IF rt_sentNo = 0
       THEN /\ tr_results' = Append(tr_results, Translated(Chunk))
            /\ pc' = "blocks"
            /\ UNCHANGED rt_sent_out
       ELSE /\ rt_sent_out' = Append(rt_sent_out, Translated(Chunk))
            /\ pc' = "sentences"
            /\ UNCHANGED tr_results
    /\ UNCHANGED <<op, pdfPages, segVars, tocVars, outVars, parVars, apiVars,
                   headVars, nameVars, docxVars, tr_text, tr_bad, tr_pieces,
                   tr_blockNo, tr_out, rt_sentences, rt_sentNo, rt_attempt, rt_delay>>

\* except Exception: time.sleep(delay + random.uniform(0, 0.4)); delay *= 2
AttemptRaised ==
    /\ op = "translate_text"
    /\ pc = "try"
    /\ rt_attempt \in range(Retries)
    /\ rt_calls' = Append(rt_calls, Call(FALSE, rt_delay))
    /\ rt_delay' = BackOff(rt_delay)
    /\ rt_attempt' = rt_attempt + 1
    /\ UNCHANGED <<op, pc, pdfPages, segVars, tocVars, outVars, parVars, apiVars,
                   headVars, nameVars, docxVars, tr_text, tr_bad, tr_pieces,
                   tr_blockNo, tr_results, tr_out, rt_sentences, rt_sentNo,
                   rt_sent_out>>

\* return None: a block is cut into sentences, a sentence is kept as it is.
AttemptsOver ==
    /\ op = "translate_text"
    /\ pc = "try"
    /\ rt_attempt \notin range(Retries)
    /\ IF rt_sentNo = 0
       THEN /\ rt_sentences' = SentencesOf(Chunk)
            /\ rt_sent_out' = <<>>
       ELSE /\ rt_sent_out' = Append(rt_sent_out, KeepOriginal(Chunk))
            /\ UNCHANGED rt_sentences
    /\ pc' = "sentences"
    /\ UNCHANGED <<op, pdfPages, segVars, tocVars, outVars, parVars, apiVars,
                   headVars, nameVars, docxVars, tr_text, tr_bad, tr_pieces,
                   tr_blockNo, tr_results, tr_out, rt_sentNo, rt_attempt, rt_delay,
                   rt_calls>>

\* translated = _try_translate(s), as far as delay = 0.8
SentenceBegin ==
    /\ op = "translate_text"
    /\ pc = "sentences"
    /\ rt_sentNo < Len(rt_sentences)
    /\ rt_sentNo' = rt_sentNo + 1
    /\ rt_attempt' = 0
    /\ rt_delay' = FirstDelay
    /\ pc' = "try"
    /\ UNCHANGED <<op, pdfPages, segVars, tocVars, outVars, parVars, apiVars,
                   headVars, nameVars, docxVars, tr_text, tr_bad, tr_pieces,
                   tr_blockNo, tr_results, tr_out, rt_sentences, rt_sent_out,
                   rt_calls>>

\* results.append(" ".join(sent_out))
SentencesEnd ==
    /\ op = "translate_text"
    /\ pc = "sentences"
    /\ rt_sentNo = Len(rt_sentences)
    /\ tr_results' = Append(tr_results, Join(<<" ">>, rt_sent_out))
    /\ rt_sentences' = <<>>
    /\ rt_sentNo' = 0
    /\ rt_sent_out' = <<>>
    /\ pc' = "blocks"
    /\ UNCHANGED <<op, pdfPages, segVars, tocVars, outVars, parVars, apiVars,
                   headVars, nameVars, docxVars, tr_text, tr_bad, tr_pieces,
                   tr_blockNo, tr_out, rt_attempt, rt_delay, rt_calls>>

RetryNext ==
    \/ TranslateEmpty
    \/ TranslateSplit
    \/ BlockBlank
    \/ BlockBegin
    \/ AttemptAnswered
    \/ AttemptRaised
    \/ AttemptsOver
    \/ SentenceBegin
    \/ SentencesEnd
    \/ TranslateReturn

SpecRetry == RetryInit /\ [][RetryNext]_vars

\* The calls made for sentence s of block b (s = 0: for the block itself),
\* as places in rt_calls, in order.
CallsFor(b, s) ==
    SelectSeq([i \in 1..Len(rt_calls) |-> i],
              LAMBDA i : rt_calls[i].block = b /\ rt_calls[i].sentence = s)

Submitted == { <<rt_calls[i].block, rt_calls[i].sentence>> : i \in 1..Len(rt_calls) }

RECURSIVE Doubled(_)
Doubled(k) == IF k = 1 THEN 8 ELSE 2 * Doubled(k - 1)

\* C28: each block, and each sentence of the fallback, is submitted to the
\* service at most 3 times and not again once a call for it has answered;
\* the delay slept for after its first, second and third failure is 0.8,
\* 1.6 and 3.2 seconds (plus jitter); and a sentence of a block is
\* submitted only after three calls for the block itself have failed.
C28_RetriesAndBackOff ==
    op = "translate_text" =>
        \A u \in Submitted :
            LET at == CallsFor(u[1], u[2])
            IN  /\ Len(at) <= 3
                /\ \A k \in 1..Len(at) :
                      /\ rt_calls[at[k]].ok => k = Len(at)
                      /\ ~rt_calls[at[k]].ok => rt_calls[at[k]].slept = Doubled(k)
                /\ u[2] > 0 =>
                      LET whole == CallsFor(u[1], 0)
                      IN  /\ Len(whole) = 3
                          /\ \A k \in 1..3 : ~rt_calls[whole[k]].ok
                                               /\ whole[k] < at[1]

\* A block has failed three times, with 0.8, 1.6 and 3.2 seconds slept, its
\* first sentence has been translated at the second call for it and its
\* second sentence has failed three times; translate_text has returned.
C28_Witness ==
    /\ op = "translate_text"
    /\ pc = "done"
    /\ tr_text = Chars("a. b!")
    /\ Len(rt_calls) = 8
    /\ [i \in 1..8 |-> rt_calls[i].slept] = <<8, 16, 32, 8, 0, 8, 16, 32>>
    /\ [i \in 1..8 |-> rt_calls[i].sentence] = <<0, 0, 0, 1, 1, 2, 2, 2>>
    /\ tr_out = Chars("A. b!")

---------------------------------------------------------------------------
(* translate_chapters_parallel and chapters_to_zip_parallel: the tasks of a
   ThreadPoolExecutor, started in the order of submission while a worker is
   free, finishing in any order, and the loop over as_completed that takes
   the finished ones. *)

MaxChapters == 3

DefaultWorkers == 3
WorkerCap == 8

\* A pool size that is only capped from above.
PoolSizeCapOnly(max_workers) ==
    Min(IF max_workers.given /\ max_workers.value # 0 THEN max_workers.value
        ELSE DefaultWorkers, WorkerCap)

\* max(1, min(int(max_workers or 3), 8)); max_workers not given is the
\* default of the parameter.
PoolSize(max_workers) ==
    Max(1, Min(IF max_workers.given /\ max_workers.value # 0 THEN max_workers.value
               ELSE DefaultWorkers, WorkerCap))

\* The max_workers a caller may ask for: none, a negative one, zero, small
\* ones, one over the cap.
WorkerRequests ==
    { [given |-> FALSE, value |-> 0] }
        \cup { [given |-> TRUE, value |-> v] : v \in {-1, 0, 1, 2, WorkerCap + 1} }

\* Chapters: a title, a text, and what the service does when the chapter's
\* task calls it ("ok", "raises", or "empty" for audio of no bytes).
ChapterSamples ==
    { [title |-> Chars("T"), text |-> Chars("a."), fate |-> "ok"],
      [title |-> <<>>, text |-> Chars("b!"), fate |-> "ok"],
      [title |-> Chars("T"), text |-> <<" ">>, fate |-> "ok"],
      [title |-> Chars("T"), text |-> Chars("c?"), fate |-> "raises"],
      [title |-> Chars("T"), text |-> Chars("a."), fate |-> "empty"] }

TranslationSamples == { ch \in ChapterSamples : ch.fate # "empty" }

\* Chapters with their pages: one the service translates, one it translates
\* in part, and one whose task raises.
FrameSamples ==
    { [title |-> Chars("T"), text |-> Chars("a."), start_page |-> 1, end_page |-> 2,
       fate |-> "ok"],
      [title |-> Chars("U"), text |-> Chars("a. b!"), start_page |-> 3, end_page |-> 3,
       fate |-> "degraded"],
      [title |-> <<>>, text |-> Chars("c?"), start_page |-> 4, end_page |-> 4,
       fate |-> "raises"] }

NoItem == [title |-> <<>>, text |-> <<>>, fate |-> "none"]

\* results = [None] * len(chapters)
EmptySlot == [filled |-> FALSE, item |-> NoItem]

Indices == 1..Len(par_chapters)

Running == {i \in Indices : par_task[i] = "running"}

ParallelInit ==
    /\ \/ /\ op = "translate_chapters_parallel"
          /\ par_chapters \in SeqsUpTo(TranslationSamples, MaxChapters)
       \/ /\ op = "chapters_to_zip_parallel"
          /\ par_chapters \in SeqsUpTo(ChapterSamples, MaxChapters)
    /\ pc = "call"
    /\ par_max_workers \in WorkerRequests
    /\ par_pool = 0
    /\ par_task = <<>>
    /\ par_results = <<>>
    /\ par_written = <<>>
    /\ par_zip = <<>>
    /\ par_error = "none"
    /\ pdfPages = <<>>
    /\ SegIdle
    /\ TocIdle
    /\ OutlineIdle
    /\ HeadingIdle
    /\ NamesIdle
    /\ DocxIdle
    /\ TranslateIdle
    /\ ApiIdle

ParallelOp == op \in {"translate_chapters_parallel", "chapters_to_zip_parallel"}

\* The pool is made and every chapter's task submitted.
Submit ==
    /\ ParallelOp
    /\ pc = "call"
    /\ par_pool' = PoolSize(par_max_workers)
    /\ par_task' = [i \in Indices |-> "queued"]
    /\ par_results' = IF op = "translate_chapters_parallel"
                      THEN [i \in Indices |-> EmptySlot] ELSE <<>>
    /\ par_written' = [i \in Indices |-> 0]
    /\ pc' = "pool"
    /\ UNCHANGED <<op, pdfPages, segVars, tocVars, outVars, headVars, nameVars, docxVars,
                   trVars, apiVars, par_chapters, par_max_workers, par_zip, par_error>>

\* A free worker takes the task that has waited longest.
TaskStart ==
    /\ ParallelOp
    /\ pc = "pool"
    /\ Cardinality(Running) < par_pool
    /\ \E i \in Indices :
          /\ par_task[i] = "queued"
          /\ \A j \in Indices : par_task[j] = "queued" => i <= j
          /\ par_task' = [par_task EXCEPT ![i] = "running"]
    /\ UNCHANGED <<op, pc, pdfPages, segVars, tocVars, outVars, headVars, nameVars,
                   docxVars, trVars, apiVars, par_chapters, par_max_workers, par_pool,
                   par_results, par_written, par_zip, par_error>>

\* A running task returns or raises.
TaskFinish ==
    /\ ParallelOp
    /\ pc = "pool"
    /\ \E i \in Running : par_task' = [par_task EXCEPT ![i] = "finished"]
    /\ UNCHANGED <<op, pc, pdfPages, segVars, tocVars, outVars, headVars, nameVars,
                   docxVars, trVars, apiVars, par_chapters, par_max_workers, par_pool,
                   par_results, par_written, par_zip, par_error>>

\* out = ch: the chapter record itself under another name
Itself(ch) == [same |-> TRUE, fields |-> ch]

\* out = dict(ch): a new record with the fields of ch
dict(ch) == [same |-> FALSE, fields |-> ch]

\* What the service fails on while the text of ch is translated: nothing,
\* or one sentence of a chapter whose translation is degraded.
FailsOn(ch) == IF ch.fate = "degraded" THEN Chars("b!") ELSE <<>>

\* translate_text(text, target_lang) for the text of each chapter there is,
\* worked out once.
translate_text_of ==
    [ch \in ChapterSamples \cup FrameSamples |-> translate_text(ch.text, FailsOn(ch))]

\* work(idx_ch) of translate_chapters_parallel, when it returns: the record
\* it returns, and the chapter it was given as it is afterwards.
work(ch) ==
    LET translated == translate_text_of[ch]
        out == dict(ch)
        item == [out.fields EXCEPT !.text = translated]
    IN  [input |-> IF out.same THEN item ELSE ch, item |-> item]

TranslatedChapter(ch) == work(ch).item

\* A loop that assigns every result to the first slot.
SlotFirst(i) == 1

\* i, item = fut.result(); results[i] = item
SlotOf(i) == i

\* A loop that lets the exception of a task through.
Propagate(ch) == [raised |-> TRUE, item |-> NoItem]

\* except Exception: results[i] = chapters[i]
KeepChapter(ch) == [raised |-> FALSE, item |-> ch]

\* One round of the loop over as_completed(futures) of
\* translate_chapters_parallel: the result of a finished task goes to its
\* slot, and the chapter itself when the task raised.
TakeTranslation ==
    /\ op = "translate_chapters_parallel"
    /\ pc = "pool"
    /\ \E i \in Indices :
          /\ par_task[i] = "finished"
          /\ par_task' = [par_task EXCEPT ![i] = "taken"]
          /\ par_chapters' = [par_chapters EXCEPT ![i] =
                                 IF @.fate = "raises" THEN @ ELSE work(@).input]
          /\ LET ch == par_chapters[i]
                 got == IF ch.fate = "raises" THEN KeepChapter(ch)
                        ELSE [raised |-> FALSE, item |-> TranslatedChapter(ch)]
             IN  IF got.raised
                 THEN /\ par_error' = "Exception"
                      /\ UNCHANGED <<par_results, par_written>>
                 ELSE /\ par_results' =
                            [par_results EXCEPT ![SlotOf(i)] =
                                [filled |-> TRUE, item |-> got.item]]
                      /\ par_written' = [par_written EXCEPT ![SlotOf(i)] = @ + 1]
                      /\ UNCHANGED par_error
    /\ UNCHANGED <<op, pc, pdfPages, segVars, tocVars, outVars, headVars, nameVars,
                   docxVars, trVars, apiVars, par_max_workers, par_pool, par_zip>>

\* tts_bytes(text, lang), when it gives bytes: kept opaque.
Audio(text) == <<"MP3">> \o text

\* f"{idx+1:02d}_{title}.mp3"
EntryName(i) ==
    TwoDigits(i) \o <<"_">>
        \o _sanitize_filename(Or(par_chapters[i].title, Chars("Chapter_") \o Decimal(i)),
                              Chars("chapter"))
        \o Chars(".mp3")

\* A task that asks for speech whatever the text.
EntryDataUnchecked(i) ==
    IF par_chapters[i].fate = "empty" THEN <<>> ELSE Audio(par_chapters[i].text)

\* What work(idx_ch) of chapters_to_zip_parallel returns for chapter i, when
\* it returns: no bytes for a blank text, else what tts_bytes gave.
EntryData(i) ==
    LET ch == par_chapters[i]
    IN  IF Strip(ch.text) = <<>> THEN <<>>
        ELSE IF ch.fate = "empty" THEN <<>>
        ELSE Audio(ch.text)

\* zf.writestr(name, data)
AppendEntry(zip, entry) == Append(zip, entry)

\* One round of the loop over as_completed(futures) of
\* chapters_to_zip_parallel: the entry of a finished task is written when
\* it has bytes; a task that raised is passed over.
TakeAudio ==
    /\ op = "chapters_to_zip_parallel"
    /\ pc = "pool"
    /\ \E i \in Indices :
          /\ par_task[i] = "finished"
          /\ par_task' = [par_task EXCEPT ![i] = "taken"]
          /\ LET raises == par_chapters[i].fate = "raises"
                              /\ Strip(par_chapters[i].text) # <<>>
             IN  IF ~raises /\ EntryData(i) # <<>>
                 THEN par_zip' = AppendEntry(par_zip,
                          [index |-> i, name |-> EntryName(i), data |-> EntryData(i)])
                 ELSE UNCHANGED par_zip
    /\ UNCHANGED <<op, pc, pdfPages, segVars, tocVars, outVars, headVars, nameVars,
                   docxVars, trVars, apiVars, par_chapters, par_max_workers, par_pool,
                   par_results, par_written, par_error>>

\* The loop is over and the pool shut down: the call returns, or ends with
\* the exception that got through.
ParallelReturn ==
    /\ ParallelOp
    /\ pc = "pool"
    /\ \/ \A i \in Indices : par_task[i] = "taken"
       \/ par_error # "none"
    /\ pc' = "done"
    /\ UNCHANGED <<op, pdfPages, segVars, tocVars, outVars, headVars, nameVars, docxVars,
                   trVars, apiVars, parVars>>

ParallelNext ==
    \/ Submit
    \/ TaskStart
    \/ TaskFinish
    \/ TakeTranslation
    \/ TakeAudio
    \/ ParallelReturn

SpecParallel == ParallelInit /\ [][ParallelNext]_vars

TranslationPool == op = "translate_chapters_parallel" /\ pc \in {"pool", "done"}

TranslationReturned == op = "translate_chapters_parallel" /\ pc = "done"

\* C15: in translate_chapters_parallel, when the task of chapter i raises,
\* slot i of the result holds the input chapter i as it was, every other
\* chapter is returned with its own translation, and the call does not raise.
C15_FailedTaskKeepsChapter ==
    TranslationReturned =>
        /\ par_error = "none"
        /\ \A i \in Indices :
              /\ par_results[i].filled
              /\ par_chapters[i].fate = "raises" => par_results[i].item = par_chapters[i]
              /\ par_chapters[i].fate # "raises" =>
                    par_results[i].item =
                        [par_chapters[i] EXCEPT !.text = translate_text(@, <<>>)]

\* Three chapters whose second task raised have been returned.
C15_Witness ==
    /\ TranslationReturned
    /\ Len(par_chapters) = 3
    /\ par_chapters[1].fate = "ok"
    /\ par_chapters[2].fate = "raises"
    /\ par_chapters[3].fate = "ok"
    /\ par_results[2].item = par_chapters[2]
    /\ par_results[1].item.text = Chars("A.")
    /\ par_results[3].item.text = Chars("B!")

\* C16: whatever the order in which the tasks complete,
\* translate_chapters_parallel's result has the length of its input, a
\* filled position i holds the result for chapter i, no position is
\* assigned twice, and none is left unfilled when the call returns.
C16_ResultsByIndex ==
    TranslationPool =>
        /\ Len(par_results) = Len(par_chapters)
        /\ \A i \in Indices :
              /\ par_written[i] <= 1
              /\ par_results[i].filled <=> par_written[i] = 1
              /\ par_results[i].filled =>
                    /\ par_results[i].item.title = par_chapters[i].title
                    /\ par_results[i].item.text \in
                          {par_chapters[i].text, translate_text(par_chapters[i].text, <<>>)}
              /\ pc = "done" => par_written[i] = 1

\* The third chapter's result is in its slot while the first two tasks have
\* not been taken: a completion out of the order of submission.
C16_Witness ==
    /\ TranslationPool
    /\ Len(par_chapters) = 3
    /\ par_task[3] = "taken"
    /\ par_task[1] # "taken"
    /\ par_task[2] # "taken"
    /\ par_results[3].filled
    /\ par_results[3].item.text = Chars("B!")
    /\ par_chapters[1].text = Chars("a.")
    /\ ~par_results[1].filled

AudioOp == op = "chapters_to_zip_parallel"

\* C17: the entries of the narration archive are appended in ascending
\* order of the chapters' indices, whatever the order in which the tasks
\* complete.
C17_AscendingIndexOrder ==
    AudioOp =>
        \A k, l \in 1..Len(par_zip) : k < l => par_zip[k].index < par_zip[l].index

\* What does hold: the entries are appended one at a time, each chapter's
\* at most once.
C17_OneEntryAtATime ==
    [][AudioOp => \/ par_zip' = par_zip
                  \/ /\ Len(par_zip') = Len(par_zip) + 1
                     /\ SubSeq(par_zip', 1, Len(par_zip)) = par_zip
                     /\ \A k \in 1..Len(par_zip) :
                           par_zip[k].index # par_zip'[Len(par_zip')].index]_vars

\* An archive whose first entry is the second chapter's.
C17_OutOfOrder ==
    /\ AudioOp
    /\ pc = "done"
    /\ Len(par_zip) = 2
    /\ par_zip[1].index = 2
    /\ par_zip[2].index = 1

Silent(i) ==
    \/ Strip(par_chapters[i].text) = <<>>
    \/ par_chapters[i].fate \in {"empty", "raises"}

EntriesOf(i) == {k \in 1..Len(par_zip) : par_zip[k].index = i}

\* C18: in chapters_to_zip_parallel a chapter whose text is blank, whose
\* audio is empty or whose synthesis raises gets no entry, every other
\* chapter gets exactly one entry, named with its own 1-based index, and the
\* call does not fail.
C18_SilentChaptersOmitted ==
    (AudioOp /\ pc = "done") =>
        /\ par_error = "none"
        /\ \A i \in Indices :
              /\ Silent(i) => EntriesOf(i) = {}
              /\ ~Silent(i) =>
                    /\ Cardinality(EntriesOf(i)) = 1
                    /\ \A k \in EntriesOf(i) :
                          /\ StartsWith(par_zip[k].name, TwoDigits(i) \o <<"_">>)
                          /\ par_zip[k].data = Audio(par_chapters[i].text)

\* A blank chapter, one whose synthesis raised and one with audio have been
\* exported: the archive holds the third chapter's entry alone.
C18_Witness ==
    /\ AudioOp
    /\ pc = "done"
    /\ Len(par_chapters) = 3
    /\ Strip(par_chapters[1].text) = <<>>
    /\ par_chapters[2].fate = "raises"
    /\ par_chapters[3].fate = "ok"
    /\ par_zip = <<[index |-> 3, name |-> Chars("03_T.mp3"),
                    data |-> Audio(par_chapters[3].text)]>>

\* max(1, min(max_workers, 8)), with 3 for a max_workers of 0 or none.
EffectivePoolSize ==
    LET asked == IF par_max_workers.given /\ par_max_workers.value # 0
                 THEN par_max_workers.value ELSE 3
    IN  IF asked < 1 THEN 1 ELSE IF asked > 8 THEN 8 ELSE asked

\* C19: the tasks running at one time are never more than the pool size,
\* which is max(1, min(max_workers, 8)) with 3 for a max_workers of 0 or
\* none, hence between 1 and 8.
C19_BoundedPool ==
    (ParallelOp /\ pc # "call") =>
        /\ Cardinality(Running) <= par_pool
        /\ par_pool = EffectivePoolSize
        /\ par_pool >= 1
        /\ par_pool <= 8

\* Two workers are busy and a third task waits for one of them.
C19_Witness ==
    /\ ParallelOp
    /\ pc = "pool"
    /\ par_max_workers = [given |-> TRUE, value |-> 2]
    /\ Cardinality(Running) = 2
    /\ \E i \in Indices : par_task[i] = "queued"

\* A negative max_workers gives a pool of one worker, one over the cap a
\* pool of eight.
C19_ExtremesReached ==
    /\ ParallelOp
    /\ pc = "pool"
    /\ par_max_workers.value = -1
    /\ par_pool = 1
    /\ Cardinality(Running) = 1

---------------------------------------------------------------------------
(* The endpoints of main.py that split an uploaded PDF into chapters:
   /pdf/chapters-zip, /translate/chapters and /tts/chapters. *)

MaxTocChapters == 2
MaxFallbackPages == 1
MaxChapterIndex == 2
MaxUploadPages == 3

Endpoints == {"/pdf/chapters-zip", "/translate/chapters", "/tts/chapters"}

\* What the machine does when pages are rasterized and read: the OCR works,
\* a binary is missing, a package is missing.
OcrStates == {"ok", "OCRConfigurationError", "OCRDependencyError"}

\* chapter_index: int | None
ChapterIndexes ==
    { [given |-> FALSE, value |-> 0] }
        \cup { [given |-> TRUE, value |-> v] : v \in 0..MaxChapterIndex }

\* The requests: /tts/chapters has no chapter_index and no fallback_pages.
Requests ==
    { r \in [endpoint : Endpoints, use_toc : BOOLEAN,
             fallback_pages : 0..MaxFallbackPages, chapter_index : ChapterIndexes] :
        r.endpoint = "/tts/chapters" =>
            ~r.chapter_index.given /\ r.fallback_pages = 0 }

\* The uploaded documents.
UploadDocuments == { d \in PdfDocuments : d.n <= MaxUploadPages }

\* The outlines of the uploaded documents: none, one entry, two entries.
UploadOutlines(n) ==
    LET first == { Destination(Chars("A"), FALSE, q) : q \in {0} \cap (0..(n - 1)) }
                     \cup { Destination(Chars("A"), FALSE, NoPage),
                            Destination(Chars("A"), TRUE, 0) }
        second == { Destination(Chars("B"), FALSE, q) : q \in {2} \cap (0..(n - 1)) }
                      \cup { Destination(Chars("B"), FALSE, NoPage) }
    IN  { <<>> } \cup { <<a>> : a \in first }
            \cup { <<a, b>> : a \in first, b \in second }

ApiInit ==
    /\ op = "endpoint"
    /\ pc = "assert"
    /\ api_req \in Requests
    /\ api_env \in [is_pdf : BOOLEAN, ocr : OcrStates, toc : 0..MaxTocChapters]
    /\ \E d \in UploadDocuments :
          /\ pdfPages = [p \in 1..d.n |-> PdfText(p, d)]
          /\ outline \in UploadOutlines(d.n)
    /\ destNo = 0
    /\ outChapters = <<>>
    /\ api_masked = "none"
    /\ api_strategy = "none"
    /\ api_count = 0
    /\ api_raised = "none"
    /\ api_status = 0
    /\ SegIdle
    /\ TocIdle
    /\ HeadingIdle
    /\ NamesIdle
    /\ DocxIdle
    /\ TranslateIdle
    /\ ParallelIdle

\* What split_pdf_by_toc ends with: the exception of _ocr_pdf_to_pages, the
\* RuntimeError of a table of contents without usable entries, or chapters.
SplitByTocOutcome(env) ==
    IF env.ocr # "ok" THEN env.ocr
    ELSE IF env.toc = 0 THEN "RuntimeError"
    ELSE "ok"

\* The except clauses at the end of the handler: every exception, the
\* HTTPException of _assert_pdf_file among them, becomes a 500.
HandlerStatus(exception) == 500

\* A split_pdf_into_chapters that stops at the outline.
OutlineOnly(list, ps) == list

\* if not chapters: chapters = _chapters_by_heuristics(reader)
OrHeuristics(list, ps) ==
    IF list = <<>> THEN _chapters_by_heuristics(ps) ELSE list

\* split_pdf_into_chapters(file_path) for a document of pages ps with the
\* outline outl: the chapters, or the TypeError of int(None).  Each list on
\* the way is worked out once and named.
split_pdf_into_chapters(ps, outl) ==
    LET from_outline == { IF outl = <<>> THEN <<>>
                          ELSE OutlineSorted(collected, Len(ps)) :
                              collected \in { Collected(flatten(outl)) } }
        lists == { OrHeuristics(chs, ps) : chs \in from_outline }
    IN  CHOOSE r \in { IF IntRaises(list)
                       THEN [raised |-> "TypeError", chapters |-> <<>>]
                       ELSE [raised |-> "none", chapters |-> WithTexts(list, ps)] :
                           list \in lists } : TRUE

\* len(split_pdf_every_n_pages(temp_pdf, n))
EveryNPagesCount(total, n) == (total + Max(1, n) - 1) \div Max(1, n)

\* _assert_pdf_file(temp_pdf), called inside the handler's try.
AssertPdfFile ==
    /\ op = "endpoint"
    /\ pc = "assert"
    /\ IF api_env.is_pdf
       THEN pc' = "split" /\ UNCHANGED <<api_raised, api_status>>
       ELSE /\ pc' = "done"
            /\ api_raised' = "HTTPException(400)"
            /\ api_status' = HandlerStatus("HTTPException(400)")
    /\ UNCHANGED <<op, pdfPages, segVars, tocVars, outVars, headVars, nameVars, docxVars,
                   trVars, parVars, api_req, api_env, api_masked, api_strategy, api_count>>

\* use_toc: split_pdf_by_toc inside try; except Exception goes on to
\* split_pdf_into_chapters.
SplitByTocTried ==
    /\ op = "endpoint"
    /\ pc = "split"
    /\ api_req.use_toc
    /\ IF SplitByTocOutcome(api_env) = "ok"
       THEN /\ api_strategy' = "split_pdf_by_toc"
            /\ api_count' = api_env.toc
            /\ pc' = "fixed"
            /\ UNCHANGED api_masked
       ELSE /\ api_masked' = SplitByTocOutcome(api_env)
            /\ pc' = "fallback"
            /\ UNCHANGED <<api_strategy, api_count>>
    /\ UNCHANGED <<op, pdfPages, segVars, tocVars, outVars, headVars, nameVars, docxVars,
                   trVars, parVars, api_req, api_env, api_raised, api_status>>

\* chapters = split_pdf_into_chapters(temp_pdf), which reads the PDF's
\* outline and text and runs no OCR.
SplitIntoChapters ==
    /\ op = "endpoint"
    /\ \/ pc = "fallback"
       \/ pc = "split" /\ ~api_req.use_toc
    /\ api_strategy' = "split_pdf_into_chapters"
    /\ \E r \in { split_pdf_into_chapters(pdfPages, outline) } :
           IF r.raised # "none"
           THEN /\ api_raised' = r.raised
                /\ api_status' = HandlerStatus(r.raised)
                /\ pc' = "done"
                /\ UNCHANGED <<outChapters, api_count>>
           ELSE /\ outChapters' = r.chapters
                /\ api_count' = Len(r.chapters)
                /\ pc' = "fixed"
                /\ UNCHANGED <<api_raised, api_status>>
    /\ UNCHANGED <<op, pdfPages, segVars, tocVars, outline, destNo, headVars, nameVars,
                   docxVars, trVars, parVars, api_req, api_env, api_masked>>

\* if len(chapters) <= 1 and fallback_pages: split_pdf_every_n_pages; the
\* /tts/chapters endpoint has no such step.
FixedPages ==
    /\ op = "endpoint"
    /\ pc = "fixed"
    /\ IF /\ api_req.endpoint # "/tts/chapters"
          /\ api_count <= 1
          /\ api_req.fallback_pages # 0
       THEN /\ api_strategy' = "split_pdf_every_n_pages"
            /\ api_count' = EveryNPagesCount(Len(pdfPages), api_req.fallback_pages)
       ELSE UNCHANGED <<api_strategy, api_count>>
    /\ pc' = "respond"
    /\ UNCHANGED <<op, pdfPages, segVars, tocVars, outVars, headVars, nameVars, docxVars,
                   trVars, parVars, api_req, api_env, api_masked, api_raised, api_status>>

\* if i < 1 or i > len(chapters)
OutOfRange(i, count) == i < 1 \/ i > count

\* if chapter_index is not None: the range check, raised inside the
\* handler's try; then the response.
Respond ==
    /\ op = "endpoint"
    /\ pc = "respond"
    /\ IF /\ api_req.chapter_index.given
          /\ OutOfRange(api_req.chapter_index.value, api_count)
       THEN /\ api_raised' = "HTTPException(400)"
            /\ api_status' = HandlerStatus("HTTPException(400)")
       ELSE /\ api_status' = 200
            /\ UNCHANGED api_raised
    /\ pc' = "done"
    /\ UNCHANGED <<op, pdfPages, segVars, tocVars, outVars, headVars, nameVars, docxVars,
                   trVars, parVars, api_req, api_env, api_masked, api_strategy, api_count>>

ApiNext ==
    \/ AssertPdfFile
    \/ SplitByTocTried
    \/ SplitIntoChapters
    \/ FixedPages
    \/ Respond

SpecApi == ApiInit /\ [][ApiNext]_vars

\* split_pdf_by_toc reported a table of contents without usable entries and
\* the handler has gone on from it.
NoUsableToc ==
    /\ op = "endpoint"
    /\ api_masked = "RuntimeError"
    /\ pc \in {"fixed", "respond", "done"}

\* What _chapters_from_outline gives for the uploaded document.
OutlineYield ==
    IF outline = <<>> THEN <<>>
    ELSE OutlineSorted(Collected(flatten(outline)), NumPages)

Bounds(list) ==
    [i \in 1..Len(list) |-> <<list[i].title, list[i].start_page, list[i].end_page>>]

C21_OutlineUsed ==
    /\ NoUsableToc
    /\ api_status = 200
    /\ Len(OutlineYield) = 2
    /\ Bounds(outChapters) = << <<Chars("A"), 0, 2>>, <<Chars("B"), 2, 3>> >>

C21_HeuristicUsed ==
    /\ NoUsableToc
    /\ api_status = 200
    /\ outline # <<>>
    /\ OutlineYield = <<>>
    /\ Len(outChapters) = 2
    /\ outChapters[1].title = Chars("Chapter 1")

\* The request ran split_pdf_by_toc on a machine whose OCR engine or PDF
\* rasterizer is missing.
ConfigurationErrorRaised ==
    /\ op = "endpoint"
    /\ api_env.is_pdf
    /\ api_req.use_toc
    /\ api_env.ocr = "OCRConfigurationError"
    /\ pc \notin {"assert", "split"}

\* C20: an OCRConfigurationError raised during chapter extraction is always
\* surfaced to the caller as a failure and never masked by a fall back to
\* another boundary strategy, the TOC path of the endpoints included.
C20_ConfigurationErrorSurfaced ==
    ConfigurationErrorRaised =>
        /\ api_masked # "OCRConfigurationError"
        /\ api_strategy = "none"
        /\ pc = "done" => api_status = 500

\* The answer to a request whose table-of-contents path met a missing OCR
\* engine: 200, with the chapters of split_pdf_into_chapters.
C20_MaskedByFallback ==
    /\ ConfigurationErrorRaised
    /\ pc = "done"
    /\ api_masked = "OCRConfigurationError"
    /\ api_strategy = "split_pdf_into_chapters"
    /\ api_status = 200

\* The handler raised HTTPException(status_code=400): the upload failed the
\* header check of _assert_pdf_file, or chapter_index is outside
\* 1..len(chapters).
BadRequestRaised ==
    /\ op = "endpoint"
    /\ pc = "done"
    /\ api_req.endpoint \in {"/pdf/chapters-zip", "/translate/chapters"}
    /\ api_raised = "HTTPException(400)"

\* C24: a request to /pdf/chapters-zip or /translate/chapters whose
\* chapter_index is outside 1..len(chapters), or whose upload fails the PDF
\* header check, is answered with status 400, not with status 500.
C24_BadRequestAnswered400 ==
    BadRequestRaised => api_status = 400

\* A PDF split into one chapter and chapter_index = 2: answered 500.
C24_IndexOutOfRange500 ==
    /\ BadRequestRaised
    /\ api_env.is_pdf
    /\ api_count = 1
    /\ api_req.chapter_index = [given |-> TRUE, value |-> 2]
    /\ api_status = 500

\* An upload that is no PDF: answered 500.
C24_NotPdf500 ==
    /\ BadRequestRaised
    /\ ~api_env.is_pdf
    /\ api_status = 500

\* chapter_index within range is answered 200.
C24_IndexInRange200 ==
    (/\ op = "endpoint"
     /\ pc = "done"
     /\ api_raised = "none")
        => /\ api_status = 200
           /\ api_req.chapter_index.given =>
                  ~OutOfRange(api_req.chapter_index.value, api_count)

---------------------------------------------------------------------------
(* Staging in export_chapters_to_zip and export_chapters_to_zip_from_toc:
   the documents are rendered into a temporary directory, the archive is
   written from them, and the finally clause removes the directory.
   batch_titles holds the titles of the chapters (of the starts, in the
   TOC export). *)

MaxStaged == 2

StagedTitles == { <<>>, Chars("a"), Chars("A") }

\* An archive that is at zip_path before the call.
OldArchive == << Chars("old.docx") >>

\* A rendering loop that is left after its first round.
AnyStaged(files, titles) == Len(files) >= 1

\* The rendering loop has run to its end: every chapter has its file in
\* created_files.
AllStaged(files, titles) == Len(files) = Len(titles)

ExportInit ==
    /\ op \in {"export_chapters_to_zip", "export_chapters_to_zip_from_toc"}
    /\ pc = "begin"
    /\ batch_titles \in SeqsUpTo(StagedTitles, MaxStaged)
    /\ batch_used = {}
    /\ batch_names = <<>>
    /\ created_files = <<>>
    /\ temp_dir = "none"
    /\ archive \in {"absent", OldArchive}
    /\ raised = "none"
    /\ printed_to_pdf_offset = 0
    /\ all_entries = <<>>
    /\ toc = <<>>
    /\ starts = <<>>
    /\ tocChapters = <<>>
    /\ used_names = {}
    /\ pdfPages = <<>>
    /\ SegIdle
    /\ OutlineIdle
    /\ HeadingIdle
    /\ DocxIdle
    /\ TranslateIdle
    /\ ParallelIdle
    /\ ApiIdle

\* if not chapters (if not starts): raise RuntimeError; otherwise
\* temp_dir = tempfile.mkdtemp(...)
ExportBegin ==
    /\ pc = "begin"
    /\ IF batch_titles = <<>>
       THEN /\ raised' = "RuntimeError"
            /\ pc' = "raised"
            /\ UNCHANGED temp_dir
       ELSE /\ temp_dir' = "exists"
            /\ pc' = "stage"
            /\ UNCHANGED raised
    /\ UNCHANGED <<op, pdfPages, segVars, outVars, restVars, printed_to_pdf_offset,
                   all_entries, toc, starts, tocChapters, used_names, created_files,
                   archive>>

\* os.path.join(temp_dir, f"{idx:02d}_{name}.docx") without the directory.
StagedFile(i, name) == TwoDigits(i) \o <<"_">> \o name \o Chars(".docx")

\* One round of the rendering loop: chapter i is named, and chapter_to_word
\* writes its document or raises.
StageChapter ==
    /\ pc = "stage"
    /\ ~AllStaged(created_files, batch_titles)
    /\ LET i == Len(created_files) + 1
           name == UniqueName(BaseName(i), 0, batch_used)
       IN  /\ batch_used' = batch_used \cup {UsedKey(name)}
           /\ batch_names' = Append(batch_names, name)
           /\ \E rendered \in BOOLEAN :
                 IF rendered
                 THEN /\ created_files' = Append(created_files, StagedFile(i, name))
                      /\ UNCHANGED <<pc, raised>>
                 ELSE /\ raised' = "chapter_to_word"
                      /\ pc' = "finally"
                      /\ UNCHANGED created_files
    /\ UNCHANGED <<op, pdfPages, segVars, outVars, headVars, docxVars, trVars, parVars,
                   apiVars, batch_titles, printed_to_pdf_offset, all_entries, toc,
                   starts, tocChapters, used_names, temp_dir, archive>>

\* zipfile.ZipFile(zip_path, "w", ...): the file at zip_path is created or
\* truncated.
OpenArchive ==
    /\ pc = "stage"
    /\ AllStaged(created_files, batch_titles)
    /\ archive' = <<>>
    /\ pc' = "zip"
    /\ UNCHANGED <<op, pdfPages, segVars, outVars, restVars, printed_to_pdf_offset,
                   all_entries, toc, starts, tocChapters, raised, used_names,
                   created_files, temp_dir>>

\* zf.write(f, os.path.basename(f)) for the next staged file, which may
\* raise OSError.
WriteEntry ==
    /\ pc = "zip"
    /\ archive # "absent"
    /\ Len(archive) < Len(created_files)
    /\ \E written \in BOOLEAN :
          IF written
          THEN /\ archive' = Append(archive, created_files[Len(archive) + 1])
               /\ UNCHANGED <<pc, raised>>
          ELSE /\ raised' = "OSError"
               /\ pc' = "finally"
               /\ UNCHANGED archive
    /\ UNCHANGED <<op, pdfPages, segVars, outVars, restVars, printed_to_pdf_offset,
                   all_entries, toc, starts, tocChapters, used_names, created_files,
                   temp_dir>>

\* The end of the with block.
CloseArchive ==
    /\ pc = "zip"
    /\ Len(archive) = Len(created_files)
    /\ pc' = "finally"
    /\ UNCHANGED <<op, pdfPages, segVars, outVars, restVars, tocVars>>

\* finally: shutil.rmtree(temp_dir, ignore_errors=True); then the return,
\* or the exception goes on to the caller.
ExportFinally ==
    /\ pc = "finally"
    /\ temp_dir' = "removed"
    /\ pc' = IF raised = "none" THEN "done" ELSE "raised"
    /\ UNCHANGED <<op, pdfPages, segVars, outVars, restVars, printed_to_pdf_offset,
                   all_entries, toc, starts, tocChapters, raised, used_names,
                   created_files, archive>>

ExportNext ==
    \/ ExportBegin
    \/ StageChapter
    \/ OpenArchive
    \/ WriteEntry
    \/ CloseArchive
    \/ ExportFinally

SpecExport == ExportInit /\ [][ExportNext]_vars

ExportOp == op \in {"export_chapters_to_zip", "export_chapters_to_zip_from_toc"}

\* The file at zip_path is as it was before the call.
ArchiveUntouched == archive = "absent" \/ archive = OldArchive

ExportEnded == pc \in {"done", "raised"}

\* C22: in both exports the archive at zip_path is opened for writing only
\* after every chapter's document has been rendered into the staging
\* directory; if rendering any chapter fails, no archive is created or
\* modified at zip_path; and the staging directory is removed in every
\* outcome.
C22_ArchiveAfterStaging ==
    (ExportOp /\ pc \in {"begin", "stage", "zip", "finally", "done", "raised"}) =>
        /\ ~ArchiveUntouched =>
               /\ Len(created_files) = Len(batch_titles)
               /\ temp_dir # "none"
        /\ pc = "zip" => temp_dir = "exists"
        /\ raised = "chapter_to_word" => ArchiveUntouched
        /\ ExportEnded => temp_dir # "exists"
        /\ (ExportEnded /\ batch_titles # <<>>) => temp_dir = "removed"

\* The second of two chapters failed to render: the old archive is as it
\* was, one file had been staged, and the staging directory is gone.
C22_Witness ==
    /\ ExportOp
    /\ pc = "raised"
    /\ raised = "chapter_to_word"
    /\ Len(batch_titles) = 2
    /\ Len(created_files) = 1
    /\ archive = OldArchive
    /\ temp_dir = "removed"

\* Both chapters rendered: the archive holds the two staged files.
C22_ArchiveWritten ==
    /\ ExportOp
    /\ pc = "done"
    /\ Len(batch_titles) = 2
    /\ archive # "absent"
    /\ archive = created_files
    /\ temp_dir = "removed"

---------------------------------------------------------------------------
(* translate_chapters_parallel on chapter records with their page ranges:
   what it does to the records it is given and what the records it returns
   keep of them. *)

FrameInit ==
    /\ op = "translate_chapters_parallel"
    /\ par_chapters \in SeqsUpTo(FrameSamples, MaxChapters)
    /\ pc = "call"
    /\ par_max_workers \in WorkerRequests
    /\ par_pool = 0
    /\ par_task = <<>>
    /\ par_results = <<>>
    /\ par_written = <<>>
    /\ par_zip = <<>>
    /\ par_error = "none"
    /\ pdfPages = <<>>
    /\ SegIdle
    /\ TocIdle
    /\ OutlineIdle
    /\ HeadingIdle
    /\ NamesIdle
    /\ DocxIdle
    /\ TranslateIdle
    /\ ApiIdle

FrameNext ==
    \/ Submit
    \/ TaskStart
    \/ TaskFinish
    \/ TakeTranslation
    \/ ParallelReturn

SpecFrame == FrameInit /\ [][FrameNext]_vars

\* Two records with the same fields and the same value in each but text.
SameButText(out, ch) == [out EXCEPT !.text = <<>>] = [ch EXCEPT !.text = <<>>]

\* C30: no step of translate_chapters_parallel changes the list it was
\* given or a chapter record of it, and every record it has put in its
\* result equals the input chapter of that position in every field except
\* text (title, start_page and end_page among them), whether the chapter
\* was translated, translated in part, or its task raised.
C30_InputsKeptOutputsAgree ==
    [][ op = "translate_chapters_parallel" =>
          /\ par_chapters' = par_chapters
          /\ \A i \in 1..Len(par_results') :
                par_results'[i].filled =>
                    /\ SameButText(par_results'[i].item, par_chapters[i])
                    /\ par_results'[i].item.title = par_chapters[i].title
                    /\ par_results'[i].item.start_page = par_chapters[i].start_page
                    /\ par_results'[i].item.end_page = par_chapters[i].end_page ]_vars

\* Three chapters have been returned: the first translated, the second
\* with one sentence left as it was, the third as it was given; the
\* chapters given are what they were.
C30_Witness ==
    /\ TranslationReturned
    /\ Len(par_chapters) = 3
    /\ [i \in 1..3 |-> par_chapters[i].fate] = <<"ok", "degraded", "raises">>
    /\ [i \in 1..3 |-> par_chapters[i].text] = <<Chars("a."), Chars("a. b!"), Chars("c?")>>
    /\ [i \in 1..3 |-> par_results[i].item.text]
           = <<Chars("A."), Chars("A. b!"), Chars("c?")>>
    /\ [i \in 1..3 |-> par_results[i].item.start_page] = <<1, 3, 4>>
    /\ [i \in 1..3 |-> par_results[i].item.end_page] = <<2, 3, 4>>

---------------------------------------------------------------------------
(* Termination.  translate_text is one thread whose every step ends: a call
   of the service answers or raises, a sleep is over after its delay.  The
   tasks of translate_chapters_parallel are run by the threads of the pool,
   and a task ends because translate_text does. *)

TerminatesInit == RetryInit \/ FrameInit

TerminatesNext == RetryNext \/ FrameNext

SpecTerminates ==
    TerminatesInit /\ [][TerminatesNext]_vars /\ WF_vars(TerminatesNext)

\* The blocks whose three calls have all failed.
FailedBlocks ==
    { b \in 1..Len(tr_pieces) :
        LET at == CallsFor(b, 0)
        IN  Len(at) = 3 /\ \A k \in 1..3 : ~rt_calls[at[k]].ok }

\* How many sentences the failed blocks among the first b have.
RECURSIVE SentencesOfFailed(_)
SentencesOfFailed(b) ==
    IF b = 0 THEN 0
    ELSE SentencesOfFailed(b - 1)
            + (IF b \in FailedBlocks THEN Len(SentencesOf(tr_pieces[b])) ELSE 0)

\* 3 calls for each block and 3 for each sentence of each failed block
CallCeiling == 3 * Len(tr_pieces) + 3 * SentencesOfFailed(Len(tr_pieces))

HasReturned ==
    \/ op = "translate_text" /\ pc = "done"
    \/ op = "translate_chapters_parallel" /\ pc = "done"

\* C29: whatever the text and whatever the service does on each call,
\* translate_text never makes more than 3 calls for each block plus 3 for
\* each sentence of each failed block, and it returns; and
\* translate_chapters_parallel returns, whatever the chapters and the pool.
C29_Terminates ==
    /\ [](op = "translate_text" => Len(rt_calls) <= CallCeiling)
    /\ <>HasReturned

\* translate_text has returned from a service that failed on every call:
\* three calls for each of the two blocks, three for the sentence of the
\* first and three for each of the two sentences of the second.
C29_Witness ==
    /\ op = "translate_text"
    /\ pc = "done"
    /\ tr_text = LongParagraph \o Chars("\n\nb! c?")
    /\ Len(rt_calls) = 15
    /\ Len(rt_calls) = CallCeiling
    /\ \A i \in 1..15 : ~rt_calls[i].ok
    /\ tr_out = tr_text

\* translate_chapters_parallel has returned three chapters.
C29_ParallelReturned ==
    /\ op = "translate_chapters_parallel"
    /\ pc = "done"
    /\ Len(par_chapters) = 3
    /\ \A i \in 1..3 : par_results[i].filled

===========================================================================
